---- MODULE Spec2Model ----
(***************************************************************************)
(* The Knowledge Compression Engine of universal_knowledge                *)
(* (src/src/universal_knowledge/core/compressor.py, class                  *)
(* KnowledgeCompressor): collectors, budget allocator, renderer.           *)
(*                                                                         *)
(* Conventions.                                                            *)
(*  - A Python str that is data (a message, a name, a timestamp) is a      *)
(*    sequence of one-character strings, so len(), slicing and             *)
(*    concatenation are Len, SubSeq and \o.  Fixed text of the renderer    *)
(*    (headings, banner, footer) is one element holding the whole text,    *)
(*    transliterated to ASCII: the code fence is written ~~~, the tree     *)
(*    connectors |-- (not last) and +-- (last).                            *)
(*  - A Python dict is a function whose domain is its key set; d[k] with   *)
(*    k outside the domain is a KeyError and is modelled as a raise.       *)
(*  - Token counts are multiples of 0.25 (len * 0.25) and are kept as      *)
(*    integers in quarter-token units: estimated_tokens holds four times   *)
(*    the Python float, and max_tokens is compared as 4 * max_tokens.      *)
(***************************************************************************)
EXTENDS Integers, Sequences, FiniteSets, TLC

VARIABLES
    config_document,   \* the config_path argument of __init__: the document it names, if any
    clock,             \* the value the clock had at the render step
    previous,          \* the output of the run before this one, as << text >>, when the pipeline is run again
    ret_lines,         \* the list of lines returned by _format_tree
    arg_tree,          \* the tree argument of a call of _format_tree
    config,            \* self.config, set by __init__
    pc,                \* position of the running call
    call,              \* the public method that was called
    env,               \* the project directory and subprocesses seen by the collectors
    state,             \* the ProjectState handed to filter_by_importance
    max_tokens,        \* the max_tokens argument
    format,            \* the format argument of compress_project
    idx,               \* position of the for loop in priority_config (1-based)
    priority_config,   \* local of filter_by_importance
    filtered,          \* local of filter_by_importance, then its result
    estimated_tokens,  \* local of filter_by_importance, in quarter tokens
    output,            \* the text returned by the render step
    exc                \* the exception that ended the call, if any

vars == << config, pc, call, env, state, max_tokens, format, idx,
           priority_config, filtered, estimated_tokens, output, exc,
           arg_tree, ret_lines,
           previous, clock,
           config_document >>

-----------------------------------------------------------------------------
(* Bounds                                                                  *)

\* small budgets 0..MaxBudget are tried next to the named ones
MaxBudget == 1

(* Program constants                                                       *)

\* len(unique_errors) >= 10
MaxErrors == 10

\* _get_directory_structure(project_path, max_depth=3)
max_depth == 3

-----------------------------------------------------------------------------
(* Strings                                                                 *)

Rep(c, n) == [j \in 1..n |-> c]

Min(a, b) == IF a < b THEN a ELSE b

\* s[:n]
Prefix(s, n) == SubSeq(s, 1, Min(n, Len(s)))

RECURSIVE Join(_, _)
\* sep.join(parts), computed by halves
Join(parts, sep) ==
    IF Len(parts) = 0 THEN << >>
    ELSE IF Len(parts) = 1 THEN parts[1]
    ELSE LET half == Len(parts) \div 2
         IN  Join(SubSeq(parts, 1, half), sep) \o sep
             \o Join(SubSeq(parts, half + 1, Len(parts)), sep)

Digits == <<"0", "1", "2", "3", "4", "5", "6", "7", "8", "9">>

RECURSIVE IntChars(_)
\* str(n) for n >= 0
IntChars(n) ==
    IF n < 10 THEN << Digits[n + 1] >>
    ELSE IntChars(n \div 10) \o << Digits[(n % 10) + 1] >>

\* the characters the model's data uses, in code-point order
AsciiChars ==
    << " ", "#", "(", ")", "-", ".", "/",
       "0", "1", "2", "3", "4", "5", "6", "7", "8", "9", ":",
       "A", "B", "C", "D", "E", "F", "G", "H", "I", "J", "K", "L", "M",
       "N", "O", "P", "Q", "R", "S", "T", "U", "V", "W", "X", "Y", "Z",
       "[", "]", "_",
       "a", "b", "c", "d", "e", "f", "g", "h", "i", "j", "k", "l", "m",
       "n", "o", "p", "q", "r", "s", "t", "u", "v", "w", "x", "y", "z" >>

\* ord(c), up to an order-preserving renumbering
Ord(c) == CHOOSE i \in 1..Len(AsciiChars) : AsciiChars[i] = c

RECURSIVE StrLess(_, _)
\* a < b on str
StrLess(a, b) ==
    IF Len(b) = 0 THEN FALSE
    ELSE IF Len(a) = 0 THEN TRUE
    ELSE IF a[1] = b[1] THEN StrLess(Tail(a), Tail(b))
    ELSE Ord(a[1]) < Ord(b[1])

\* sub in s
Contains(s, sub) ==
    \E j \in 1..(Len(s) - Len(sub) + 1) : SubSeq(s, j, j + Len(sub) - 1) = sub

\* s.startswith(p)
StartsWith(s, p) == Len(s) >= Len(p) /\ SubSeq(s, 1, Len(p)) = p

\* s[n:]
Suffix(s, n) == SubSeq(s, n + 1, Len(s))

Whitespace == { " ", "\n", "\t" }

\* s.strip()
Strip(s) ==
    LET keep == { j \in 1..Len(s) : s[j] \notin Whitespace }
    IN  IF keep = {} THEN << >>
        ELSE SubSeq(s, CHOOSE j \in keep : \A k \in keep : j <= k,
                       CHOOSE j \in keep : \A k \in keep : j >= k)

\* s.split(c) for a one-character separator
Split(s, c) ==
    LET cuts == { j \in 1..Len(s) : s[j] = c }
        Nth(n) ==  \* position of the n-th separator; 0 and Len(s)+1 bound the text
            IF n = 0 THEN 0
            ELSE IF n > Cardinality(cuts) THEN Len(s) + 1
            ELSE CHOOSE j \in cuts : Cardinality({ k \in cuts : k < j }) = n - 1
    IN  [n \in 1..(Cardinality(cuts) + 1) |-> SubSeq(s, Nth(n - 1) + 1, Nth(n) - 1)]

RECURSIVE InsertDescending(_, _)
\* the pair x = << key, value >> placed after every pair of the descending
\* sequence whose key is >= its own
InsertDescending(sorted, x) ==
    IF Len(sorted) = 0 THEN << x >>
    ELSE IF StrLess(Head(sorted)[1], x[1]) THEN << x >> \o sorted
    ELSE << Head(sorted) >> \o InsertDescending(Tail(sorted), x)

RECURSIVE SortPairsDescending(_)
\* sorted(xs, key=..., reverse=True) on pairs << key, x >>: stable, equal keys
\* keep their order
SortPairsDescending(pairs) ==
    IF Len(pairs) = 0 THEN << >>
    ELSE InsertDescending(SortPairsDescending(SubSeq(pairs, 1, Len(pairs) - 1)),
                          pairs[Len(pairs)])

\* the characters of a dict key
KeyChars(k) ==
    CASE k = "type" -> <<"t","y","p","e">>
      [] k = "file" -> <<"f","i","l","e">>
      [] k = "line" -> <<"l","i","n","e">>
      [] k = "container" -> <<"c","o","n","t","a","i","n","e","r">>
      [] k = "message" -> <<"m","e","s","s","a","g","e">>
      [] k = "timestamp" -> <<"t","i","m","e","s","t","a","m","p">>
      [] k = "id" -> <<"i","d">>
      [] k = "content" -> <<"c","o","n","t","e","n","t">>
      [] k = "status" -> <<"s","t","a","t","u","s">>
      [] k = "priority" -> <<"p","r","i","o","r","i","t","y">>
      [] k = "commits" -> <<"c","o","m","m","i","t","s">>
      [] k = "commit" -> <<"c","o","m","m","i","t">>
      [] k = "files" -> <<"f","i","l","e","s">>
      [] k = "path" -> <<"p","a","t","h">>
      [] k = "modified" -> <<"m","o","d","i","f","i","e","d">>
      [] k = "structure" -> <<"s","t","r","u","c","t","u","r","e">>
      [] k = "main_files" -> <<"m","a","i","n","_","f","i","l","e","s">>
      [] k = "services" -> <<"s","e","r","v","i","c","e","s">>
      [] k = "databases" -> <<"d","a","t","a","b","a","s","e","s">>
      [] k = "name" -> <<"n","a","m","e">>
      [] k = "children" -> <<"c","h","i","l","d","r","e","n">>
      [] k = "size" -> <<"s","i","z","e">>
      [] k = "ports" -> <<"p","o","r","t","s">>
      [] k = "description" -> <<"d","e","s","c","r","i","p","t","i","o","n">>

-----------------------------------------------------------------------------
(* json.dumps(obj, ensure_ascii=False): default separators ", " and ": ",  *)
(* strings quoted, with the quote and the backslash escaped.  The keys of  *)
(* a dict are written in the order the collectors insert them; the length  *)
(* of the text, which is all the allocator reads, does not depend on it.   *)

RECURSIVE EscapeChars(_)
\* the characters of s with the quote and the backslash escaped, computed by halves
EscapeChars(s) ==
    IF Len(s) = 0 THEN << >>
    ELSE IF Len(s) = 1
    THEN (IF s[1] \in {"\"", "\\"} THEN << "\\", s[1] >> ELSE s)
    ELSE LET half == Len(s) \div 2
         IN  EscapeChars(SubSeq(s, 1, half)) \o EscapeChars(SubSeq(s, half + 1, Len(s)))

DumpsStr(s) == << "\"" >> \o EscapeChars(s) \o << "\"" >>

\* a list whose items are already serialized
DumpsList(items) == << "[" >> \o Join(items, << ",", " " >>) \o << "]" >>

\* a dict whose values are already serialized, its keys written in order
DumpsDict(dumped, order) ==
    LET present == SelectSeq(order, LAMBDA key : key \in DOMAIN dumped)
    IN  << "{" >>
        \o Join([n \in 1..Len(present) |->
                    DumpsStr(KeyChars(present[n])) \o << ":", " " >> \o dumped[present[n]]],
                << ",", " " >>)
        \o << "}" >>

\* a dict of str values
DumpsStrDict(strs, keys) == DumpsDict([k \in DOMAIN strs |-> DumpsStr(strs[k])], keys)

DumpsError(e) ==
    DumpsDict([k \in DOMAIN e |-> IF k = "line" THEN IntChars(e[k]) ELSE DumpsStr(e[k])],
              << "type", "file", "line", "container", "message", "timestamp" >>)

DumpsTask(t) == DumpsStrDict(t, << "id", "content", "status", "priority" >>)

DumpsCommit(c) == DumpsStrDict(c, << "commit", "message" >>)

DumpsFile(f) == DumpsStrDict(f, << "path", "modified" >>)

DumpsChanges(c) ==
    DumpsDict([k \in DOMAIN c |->
                  IF k = "commits"
                  THEN DumpsList([j \in 1..Len(c[k]) |-> DumpsCommit(c[k][j])])
                  ELSE DumpsList([j \in 1..Len(c[k]) |-> DumpsFile(c[k][j])])],
              << "commits", "files" >>)

RECURSIVE DumpsTree(_)
DumpsTree(t) ==
    DumpsDict([k \in DOMAIN t |->
                  IF k = "children"
                  THEN DumpsList([j \in 1..Len(t[k]) |-> DumpsTree(t[k][j])])
                  ELSE DumpsStr(t[k])],
              << "name", "type", "children" >>)

DumpsMainFile(f) ==
    DumpsDict([k \in DOMAIN f |-> IF k = "size" THEN IntChars(f[k]) ELSE DumpsStr(f[k])],
              << "path", "type", "size" >>)

DumpsService(s) ==
    DumpsDict([k \in DOMAIN s |->
                  IF k = "ports"
                  THEN DumpsList([j \in 1..Len(s[k]) |-> DumpsStr(s[k][j])])
                  ELSE DumpsStr(s[k])],
              << "name", "type", "ports", "file" >>)

DumpsArchitecture(a) ==
    DumpsDict([k \in DOMAIN a |->
                  CASE k = "structure" -> DumpsTree(a[k])
                    [] k = "main_files" ->
                         DumpsList([j \in 1..Len(a[k]) |-> DumpsMainFile(a[k][j])])
                    [] k = "services" ->
                         DumpsList([j \in 1..Len(a[k]) |-> DumpsService(a[k][j])])
                    [] k = "databases" ->
                         DumpsList([j \in 1..Len(a[k]) |-> DumpsStr(a[k][j])])],
              << "structure", "main_files", "services", "databases" >>)

\* json.dumps(state[state_key], ensure_ascii=False), by the section's shape
json_dumps(state_key, payload) ==
    CASE state_key = "current_errors" ->
             DumpsList([j \in 1..Len(payload) |-> DumpsError(payload[j])])
      [] state_key = "tasks" ->
             DumpsList([j \in 1..Len(payload) |-> DumpsTask(payload[j])])
      [] state_key = "recent_changes" -> DumpsChanges(payload)
      [] state_key = "architecture" -> DumpsArchitecture(payload)

-----------------------------------------------------------------------------
(* Configuration                                                           *)

\* the budget-relevant keys of default_config; "sections" and
\* "update_frequency" are carried by no code of the engine
default_config ==
    [knowledge_compression |->
        [output_file |-> "PROJECT_KNOWLEDGE_MAP.md",
         max_tokens |-> 5000,
         claude_code_optimization |->
            [enabled |-> TRUE,
             priority_order |-> << "errors_and_issues", "current_tasks",
                                   "recent_changes", "architecture_summary" >>]]]

\* {**a, **b}: a shallow merge, the keys of b replace those of a whole
DictMerge(a, b) ==
    [k \in DOMAIN a \cup DOMAIN b |-> IF k \in DOMAIN b THEN b[k] ELSE a[k]]

\* config_path is None or names no file: [exists |-> FALSE];
\* otherwise the parsed document is in "content"
_load_config(config_path) ==
    IF config_path.exists
    THEN DictMerge(default_config, config_path.content)
    ELSE default_config

NoDoc == [exists |-> FALSE]

\* the document of test_compress_with_custom_config
TestDoc ==
    [exists |-> TRUE,
     content |->
        [knowledge_compression |->
            [max_tokens |-> 3000,
             claude_code_optimization |->
                [enabled |-> TRUE,
                 priority_order |-> << "current_tasks", "errors_and_issues" >>]]]]

\* a document that sets the budget only
BudgetOnlyDoc ==
    [exists |-> TRUE,
     content |-> [knowledge_compression |-> [max_tokens |-> 3000]]]

\* the priority order of the spec's scenario
ScenarioDoc ==
    [exists |-> TRUE,
     content |->
        [knowledge_compression |->
            [claude_code_optimization |->
                [priority_order |-> << "errors_and_issues", "current_tasks" >>]]]]

\* a repeated name and a name outside the mapping, and a budget of 100
RepeatDoc ==
    [exists |-> TRUE,
     content |->
        [knowledge_compression |->
            [max_tokens |-> 100,
             claude_code_optimization |->
                [priority_order |-> << "current_tasks", "summary", "current_tasks",
                                       "recent_changes" >>]]]]

ConfigDocs == { NoDoc, TestDoc, BudgetOnlyDoc, ScenarioDoc, RepeatDoc }

-----------------------------------------------------------------------------
(* Section payloads                                                        *)

s_ERROR == <<"E","R","R","O","R">>
s_high == <<"h","i","g","h">>
s_medium == <<"m","e","d","i","u","m">>
s_low == <<"l","o","w">>
s_pending == <<"p","e","n","d","i","n","g">>
s_file == <<"f","i","l","e">>
s_directory == <<"d","i","r","e","c","t","o","r","y">>
s_proj == <<"p","r","o","j">>
s_python == <<"p","y","t","h","o","n">>
s_unknown == <<"u","n","k","n","o","w","n">>
s_stamp == <<"2","0","2","5","-","0","1","-","1","5","T","1","0",":","0","0",":","0","0">>

\* the project_info of test_filter_by_importance
TestInfo == [name |-> <<"t","e","s","t">>]

\* the current_errors of test_filter_by_importance: 92 characters, 23 tokens
TestErrors ==
    << [type |-> s_ERROR, message |-> <<"T","e","s","t"," ","e","r","r","o","r"," ","1">>],
       [type |-> s_ERROR, message |-> <<"T","e","s","t"," ","e","r","r","o","r"," ","2">>] >>

\* an error as _extract_errors_from_file builds it
LogError(n, pad) ==
    [type |-> s_ERROR, file |-> <<"e",".","l","o","g">>, line |-> n,
     message |-> <<"E","R","R","O","R"," ">> \o IntChars(n) \o << " " >> \o Rep("x", pad),
     timestamp |-> s_stamp]

\* three errors whose serialization is 600 characters: 150 tokens
BigErrors == << LogError(1, 94), LogError(2, 94), LogError(3, 94) >>

\* an entry without 'message'
BadErrors == << [type |-> s_ERROR] >>

\* the tasks of test_filter_by_importance: 85 characters, 21.25 tokens
TestTasks ==
    << [content |-> <<"T","a","s","k"," ","1">>, priority |-> s_high],
       [content |-> <<"T","a","s","k"," ","2">>, priority |-> s_low] >>

\* an entry without 'content', as a task cache file may hold
BadTasks == << [priority |-> s_high] >>

SomeChanges ==
    [commits |-> << [commit |-> <<"a","b","c","1","2","3">>, message |-> <<"f","e","a","t",":"," ","a","d","d">>],
                    [commit |-> <<"d","e","f","4","5","6">>, message |-> <<"f","i","x",":"," ","b","u","g">>] >>,
     files |-> << [path |-> <<"s","r","c","/","m","a","i","n",".","p","y">>, modified |-> s_stamp] >>]

SomeTree ==
    [name |-> s_proj, type |-> s_directory,
     children |-> << [name |-> <<"s","r","c">>, type |-> s_directory,
                      children |-> << [name |-> <<"m","a","i","n",".","p","y">>, type |-> s_file] >>],
                     [name |-> <<"R","E","A","D","M","E",".","m","d">>, type |-> s_file] >>]

SomeArchitecture ==
    [structure |-> SomeTree,
     main_files |-> << [path |-> <<"s","r","c","/","m","a","i","n",".","p","y">>, type |-> <<"e","n","t","r","y","_","p","o","i","n","t">>, size |-> 42] >>,
     services |-> << [name |-> <<"m","a","i","n">>, type |-> <<"a","p","i">>, file |-> <<"s","r","c","/","m","a","i","n",".","p","y">>] >>,
     databases |-> << <<"p","o","s","t","g","r","e","s","q","l">> >>]

\* the architecture of test_filter_by_importance: its tree has no 'type'
TestArchitecture ==
    [structure |-> [name |-> <<"p","r","o","j","e","c","t">>, children |-> << >>], services |-> << >>]

\* an optional section: << >> when the key is absent, << payload >> otherwise
ErrorsChoices == { << >>, << << >> >>, << TestErrors >>, << BigErrors >>, << BadErrors >> }
TasksChoices == { << >>, << << >> >>, << TestTasks >>, << BadTasks >> }
ChangesChoices == { << >>, << SomeChanges >> }
ArchitectureChoices == { << >>, << SomeArchitecture >>, << TestArchitecture >> }

Entry(k, opt) == IF Len(opt) = 0 THEN << >> ELSE k :> opt[1]

\* the ProjectStates handed to filter_by_importance by direct callers
DirectStates ==
    { ("project_info" :> TestInfo) @@ Entry("current_errors", e) @@ Entry("tasks", t)
        @@ Entry("recent_changes", c) @@ Entry("architecture", a) :
        e \in ErrorsChoices, t \in TasksChoices,
        c \in ChangesChoices, a \in ArchitectureChoices }

Budgets == (0..MaxBudget) \cup { 23, 100, 5000 }

-----------------------------------------------------------------------------
(* Budget allocator: filter_by_importance                                  *)

priority_mapping ==
    [errors_and_issues |-> "current_errors",
     current_tasks |-> "tasks",
     recent_changes |-> "recent_changes",
     architecture_summary |-> "architecture"]

\* d.get(k, default)
Get(d, k, default) == IF k \in DOMAIN d THEN d[k] ELSE default

\* self.config['knowledge_compression']['claude_code_optimization']['priority_order']
\* finds every key on its way
HasPriorityOrder(cfg) ==
    /\ "knowledge_compression" \in DOMAIN cfg
    /\ "claude_code_optimization" \in DOMAIN cfg.knowledge_compression
    /\ "priority_order" \in DOMAIN cfg.knowledge_compression.claude_code_optimization

\* tokens = len(content) * 0.25, in quarter tokens
EstimateTokens(content) == Len(content)

\* mutant: the section alone is compared with the budget
Fits_IgnoringTotal(estimated, tokens, budget) == tokens <= 4 * budget

\* mutant: the comparison is strict
Fits_Strict(estimated, tokens, budget) == estimated + tokens < 4 * budget

\* mutant: the default budget is compared instead of the argument
Fits_DefaultBudget(estimated, tokens, budget) == estimated + tokens <= 4 * 5000

\* estimated_tokens + tokens <= max_tokens, both sides in quarter tokens
Fits(estimated, tokens, budget) == estimated + tokens <= 4 * budget

\* mutant: a list section is cut to its first entry
IncludeSection_Truncated(f, state_key, st) ==
    DictMerge(f, state_key :> (IF state_key \in {"current_errors", "tasks"}
                               THEN Prefix(st[state_key], 1) ELSE st[state_key]))

\* filtered[state_key] = state[state_key]
IncludeSection(f, state_key, st) == DictMerge(f, state_key :> st[state_key])

\* mutant: project_info is added only while budget is left
AddProjectInfo_IfBudgetLeft(f, st) ==
    IF estimated_tokens < 4 * max_tokens
    THEN DictMerge(f, "project_info" :> Get(st, "project_info", << >>))
    ELSE f

\* mutant: the status sections are added along with project_info
AddProjectInfo_WithStatus(f, st) ==
    DictMerge(DictMerge(f, "project_info" :> Get(st, "project_info", << >>)),
              [k \in DOMAIN st \cap {"test_status", "docker_status"} |-> st[k]])

\* filtered['project_info'] = state.get('project_info', {})
AddProjectInfo(f, st) == DictMerge(f, "project_info" :> Get(st, "project_info", << >>))

\* a name outside the mapping falls back on the tasks section
ResolvedKey_UnknownAsTasks(priority_key, st) ==
    IF priority_key \notin DOMAIN priority_mapping
    THEN (IF "tasks" \in DOMAIN st THEN << "tasks" >> ELSE << >>)
    ELSE IF priority_mapping[priority_key] \in DOMAIN st
    THEN << priority_mapping[priority_key] >>
    ELSE << >>

\* the section key the loop body reaches with priority_key, << >> if none
ResolvedKey(priority_key, st) ==
    IF priority_key \in DOMAIN priority_mapping
       /\ priority_mapping[priority_key] \in DOMAIN st
    THEN << priority_mapping[priority_key] >>
    ELSE << >>

\* tokens of the section state_key of st
SectionTokens(state_key, st) == EstimateTokens(json_dumps(state_key, st[state_key]))

-----------------------------------------------------------------------------
(* Renderer: format_for_claude_code, _format_tree, format_as_mindmap       *)

s_Unknown == <<"U","n","k","n","o","w","n">>

\* fixed text, transliterated
TitleLine == << "# Project knowledge map (for Claude Code)" >>
QuoteLine1 == << "> This file is the compressed knowledge base Claude Code develops from." >>
QuoteLine2 == << "> Read this file first instead of reading every file." >>
LocationHeading == << "## Current location" >>
OverviewHeading == << "### Project overview" >>
IssuesHeading == << "### Current issues" >>
ArchitectureHeading == << "## Architecture" >>
StructureHeading == << "### Directory structure (important parts only)" >>
ServicesHeading == << "### Main services" >>
TasksHeading == << "## Current tasks" >>
HighHeading == << "### High Priority" >>
MediumHeading == << "### Medium Priority" >>
ChangesHeading == << "## Recent changes" >>
CommitsHeading == << "### Latest commits" >>
FilesHeading == << "### Recently updated files" >>
FooterRule == << "---" >>
FooterNext == << "Next update: run ukf knowledge compress" >>
Blank == << >>

\* the concatenation of a sequence of sequences
Flatten(parts) == Join(parts, << >>)

Ok(lines) == [ok |-> TRUE, lines |-> lines]
Raise == [ok |-> FALSE, lines |-> << >>]

RECURSIVE _format_tree_Swapped(_, _)
\* the printer with the two connectors exchanged
_format_tree_Swapped(tree, prefix) ==
    IF "type" \notin DOMAIN tree THEN Raise
    ELSE IF tree.type # s_directory THEN Ok(<< >>)
    ELSE IF "name" \notin DOMAIN tree THEN Raise
    ELSE
      LET children == Get(tree, "children", << >>)
          ChildLines(i) ==
              LET child == children[i]
                  is_last == (i = Len(children))
                  child_prefix == prefix \o (IF is_last THEN << "|-- " >> ELSE << "+-- " >>)
              IN  IF "type" \notin DOMAIN child THEN Raise
                  ELSE IF child.type = s_directory THEN _format_tree_Swapped(child, child_prefix)
                  ELSE IF "name" \notin DOMAIN child THEN Raise
                  ELSE Ok(<< child_prefix \o child.name >>)
          parts == [i \in 1..Len(children) |-> ChildLines(i)]
      IN  IF \E i \in 1..Len(children) : ~parts[i].ok THEN Raise
          ELSE Ok(<< prefix \o tree.name \o << "/" >> >>
                  \o Flatten([i \in 1..Len(children) |-> parts[i].lines]))

RECURSIVE _format_tree(_, _)
\* the lines of a tree, or Raise where tree['type'], tree['name'], child['type']
\* or child['name'] is a KeyError.  The recursive call receives child_prefix;
\* next_prefix is computed and never used.
_format_tree(tree, prefix) ==
    IF "type" \notin DOMAIN tree THEN Raise
    ELSE IF tree.type # s_directory THEN Ok(<< >>)
    ELSE IF "name" \notin DOMAIN tree THEN Raise
    ELSE
      LET children == Get(tree, "children", << >>)
          ChildLines(i) ==
              LET child == children[i]
                  is_last == (i = Len(children))
                  child_prefix == prefix \o (IF is_last THEN << "+-- " >> ELSE << "|-- " >>)
              IN  IF "type" \notin DOMAIN child THEN Raise
                  ELSE IF child.type = s_directory THEN _format_tree(child, child_prefix)
                  ELSE IF "name" \notin DOMAIN child THEN Raise
                  ELSE Ok(<< child_prefix \o child.name >>)
          parts == [i \in 1..Len(children) |-> ChildLines(i)]
      IN  IF \E i \in 1..Len(children) : ~parts[i].ok THEN Raise
          ELSE Ok(<< prefix \o tree.name \o << "/" >> >>
                  \o Flatten([i \in 1..Len(children) |-> parts[i].lines]))

HeaderBlock == Ok(<< TitleLine, Blank, QuoteLine1, QuoteLine2, Blank >>)

InfoBlock(st) ==
    IF "project_info" \notin DOMAIN st THEN Ok(<< >>)
    ELSE LET info == st.project_info
         IN  Ok(<< LocationHeading, Blank, OverviewHeading,
                   << "- **Name**: " >> \o Get(info, "name", s_Unknown),
                   << "- **Type**: " >> \o Get(info, "type", s_Unknown) >>
                \o (IF "description" \in DOMAIN info
                    THEN << << "- **Description**: " >> \o info.description >>
                    ELSE << >>)
                \o << Blank >>)

\* the errors block guarded by the presence of the section alone
ErrorsBlock_PresenceOnly(st) ==
    IF "current_errors" \notin DOMAIN st THEN Ok(<< >>)
    ELSE LET shown == Prefix(st.current_errors, 5)
         IN  Ok(<< IssuesHeading, << "~~~yaml" >>, << "critical:" >> >>
                \o [i \in 1..Len(shown) |->
                       << "  - " >> \o shown[i].type \o << ": " >>
                       \o Prefix(shown[i].message, 100)]
                \o << Blank, << "~~~" >>, Blank >>)

ErrorsBlock(st) ==
    IF ~("current_errors" \in DOMAIN st /\ Len(st.current_errors) > 0) THEN Ok(<< >>)
    ELSE LET shown == Prefix(st.current_errors, 5)
         IN  IF \E i \in 1..Len(shown) : ~({"type", "message"} \subseteq DOMAIN shown[i])
             THEN Raise
             ELSE Ok(<< IssuesHeading, << "~~~yaml" >>, << "critical:" >> >>
                     \o [i \in 1..Len(shown) |->
                            << "  - " >> \o shown[i].type \o << ": " >>
                            \o Prefix(shown[i].message, 100)]
                     \o << Blank, << "~~~" >>, Blank >>)

ArchitectureBlock(st) ==
    IF "architecture" \notin DOMAIN st THEN Ok(<< >>)
    ELSE
      LET arch == st.architecture
          tree == IF "structure" \in DOMAIN arch
                  THEN _format_tree(arch.structure, << >>) ELSE Ok(<< >>)
          services == Get(arch, "services", << >>)
          databases == Get(arch, "databases", << >>)
      IN  IF ~tree.ok THEN Raise
          ELSE IF \E i \in 1..Len(services) : ~({"name", "type"} \subseteq DOMAIN services[i])
          THEN Raise
          ELSE Ok(<< ArchitectureHeading, Blank >>
                  \o (IF "structure" \in DOMAIN arch
                      THEN << StructureHeading, << "~~~" >> >> \o tree.lines
                           \o << << "~~~" >>, Blank >>
                      ELSE << >>)
                  \o (IF Len(services) > 0
                      THEN << ServicesHeading, << "~~~yaml" >> >>
                           \o [i \in 1..Len(services) |->
                                  << "- " >> \o services[i].name \o << ": " >>
                                  \o services[i].type]
                           \o << << "~~~" >>, Blank >>
                      ELSE << >>)
                  \o (IF Len(databases) > 0
                      THEN << << "### Databases: " >> \o Join(databases, << ",", " " >>),
                              Blank >>
                      ELSE << >>))

\* the group without the cut to three tasks
TaskGroup_Unbounded(heading, tasks) ==
    LET shown == tasks
    IN  IF Len(tasks) = 0 THEN Ok(<< >>)
        ELSE IF \E i \in 1..Len(shown) : "content" \notin DOMAIN shown[i] THEN Raise
        ELSE Ok(<< heading >> \o [i \in 1..Len(shown) |-> << "- " >> \o shown[i].content]
                \o << Blank >>)

\* one priority group: heading, at most three tasks, a blank line
TaskGroup(heading, tasks) ==
    LET shown == Prefix(tasks, 3)
    IN  IF Len(tasks) = 0 THEN Ok(<< >>)
        ELSE IF \E i \in 1..Len(shown) : "content" \notin DOMAIN shown[i] THEN Raise
        ELSE Ok(<< heading >> \o [i \in 1..Len(shown) |-> << "- " >> \o shown[i].content]
                \o << Blank >>)

TasksBlock(st) ==
    IF ~("tasks" \in DOMAIN st /\ Len(st.tasks) > 0) THEN Ok(<< >>)
    ELSE
      LET IsHigh(t) == Get(t, "priority", << >>) = <<"h","i","g","h">>
          IsMedium(t) == Get(t, "priority", << >>) = <<"m","e","d","i","u","m">>
          high_tasks == SelectSeq(st.tasks, IsHigh)
          medium_tasks == SelectSeq(st.tasks, IsMedium)
          high == TaskGroup(HighHeading, high_tasks)
          medium == TaskGroup(MediumHeading, medium_tasks)
      IN  IF ~high.ok \/ ~medium.ok THEN Raise
          ELSE Ok(<< TasksHeading, Blank >> \o high.lines \o medium.lines)

ChangesBlock(st) ==
    IF "recent_changes" \notin DOMAIN st THEN Ok(<< >>)
    ELSE
      LET changes == st.recent_changes
          commits == Prefix(Get(changes, "commits", << >>), 3)
          files == Prefix(Get(changes, "files", << >>), 5)
      IN  IF \/ \E i \in 1..Len(commits) : ~({"commit", "message"} \subseteq DOMAIN commits[i])
             \/ \E i \in 1..Len(files) : ~({"path", "modified"} \subseteq DOMAIN files[i])
          THEN Raise
          ELSE Ok(<< ChangesHeading, Blank >>
                  \o (IF Len(commits) > 0
                      THEN << CommitsHeading >>
                           \o [i \in 1..Len(commits) |->
                                  << "- " >> \o commits[i].commit \o << ": " >>
                                  \o commits[i].message]
                           \o << Blank >>
                      ELSE << >>)
                  \o (IF Len(files) > 0
                      THEN << FilesHeading >>
                           \o [i \in 1..Len(files) |->
                                  << "- " >> \o files[i].path \o << " (" >>
                                  \o Prefix(files[i].modified, 10) \o << ")" >>]
                           \o << Blank >>
                      ELSE << >>))

\* now is datetime.now().strftime('%Y-%m-%d %H:%M')
FooterBlock(now) == Ok(<< FooterRule, << "Last update: " >> \o now, FooterNext >>)

\* the blocks with the tasks ahead of the issues
format_for_claude_code_TasksFirst(st, now) ==
    LET blocks == << HeaderBlock, InfoBlock(st), TasksBlock(st), ErrorsBlock(st),
                     ArchitectureBlock(st), ChangesBlock(st), FooterBlock(now) >>
    IN  IF \E i \in 1..Len(blocks) : ~blocks[i].ok THEN Raise
        ELSE Ok(Join(Flatten([i \in 1..Len(blocks) |-> blocks[i].lines]), << "\n" >>))

\* '\n'.join(lines), or Raise
format_for_claude_code(st, now) ==
    LET blocks == << HeaderBlock, InfoBlock(st), ErrorsBlock(st), ArchitectureBlock(st),
                     TasksBlock(st), ChangesBlock(st), FooterBlock(now) >>
    IN  IF \E i \in 1..Len(blocks) : ~blocks[i].ok THEN Raise
        ELSE Ok(Join(Flatten([i \in 1..Len(blocks) |-> blocks[i].lines]), << "\n" >>))

format_as_mindmap(st) == Ok(<< "# Mind Map Format", "\n", "\n", "Not implemented yet." >>)

format_as_markdown(st, now) == format_for_claude_code(st, now)

\* the dispatch of compress_project on its format argument
Render(fmt, st, now) ==
    IF fmt = "claude-code" THEN format_for_claude_code(st, now)
    ELSE IF fmt = "mindmap" THEN format_as_mindmap(st)
    ELSE format_as_markdown(st, now)

Formats == { "claude-code", "mindmap", "markdown" }

\* values of the clock at the render step
Clocks == { <<"2","0","2","5","-","0","1","-","1","5"," ","1","0",":","0","0">>, <<"2","0","2","5","-","0","1","-","1","6"," ","0","9",":","3","0">> }

-----------------------------------------------------------------------------
(* Signal collectors.  env is what the collectors read: the project        *)
(* directory (a tree of nodes in the order the file system lists them),    *)
(* the output of git and docker, the clock.  A file node carries its text, *)
(* whether it can be opened and read, and for a JSON or YAML file the      *)
(* outcome of parsing it.  A collector that can let an exception escape    *)
(* returns Done(value) or Failed(type).                                    *)

Done(value) == [ok |-> TRUE, value |-> value]
Failed(type) == [ok |-> FALSE, type |-> type]

\* the indices of xs, in order, whose element satisfies Test
Indices(xs, Test(_)) == SelectSeq([j \in 1..Len(xs) |-> j], Test)

\* xs[-n:]
Last(xs, n) == SubSeq(xs, Len(xs) - Min(n, Len(xs)) + 1, Len(xs))

EndsWith(s, t) == Len(t) <= Len(s) /\ Suffix(s, Len(s) - Len(t)) = t

\* f.readlines(), each line without its newline
Lines(text) ==
    LET pieces == Split(text, "\n")
    IN  IF Len(text) = 0 THEN << >>
        ELSE IF Len(pieces[Len(pieces)]) = 0 THEN SubSeq(pieces, 1, Len(pieces) - 1)
        ELSE pieces

\* (dir / name) as a list: empty when it does not exist
Child(dir, name) == SelectSeq(dir.children, LAMBDA c : c.name = name)

\* (project_path / name).exists()
Exists(e, name) == Len(Child(e.root, name)) > 0

\* open() and read() succeed
Opens(node) == ~node.is_dir /\ node.readable

\* dir.glob(pattern) for a pattern '*' + ending; a directory that cannot be
\* listed yields nothing
Glob(dirs, ending) ==
    Flatten([j \in 1..Len(dirs) |->
                IF dirs[j].is_dir /\ dirs[j].listable
                THEN SelectSeq(dirs[j].children, LAMBDA c : EndsWith(c.name, ending))
                ELSE << >>])

_detect_project_type(e) ==
    IF Exists(e, <<"p","a","c","k","a","g","e",".","j","s","o","n">>) THEN <<"n","o","d","e","/","j","a","v","a","s","c","r","i","p","t">>
    ELSE IF Exists(e, <<"r","e","q","u","i","r","e","m","e","n","t","s",".","t","x","t">>) \/ Exists(e, <<"p","y","p","r","o","j","e","c","t",".","t","o","m","l">>) THEN s_python
    ELSE IF Exists(e, <<"g","o",".","m","o","d">>) THEN <<"g","o">>
    ELSE IF Exists(e, <<"C","a","r","g","o",".","t","o","m","l">>) THEN <<"r","u","s","t">>
    ELSE IF Exists(e, <<"p","o","m",".","x","m","l">>) THEN <<"j","a","v","a","/","m","a","v","e","n">>
    ELSE s_unknown

s_Overview == <<"O","v","e","r","v","i","e","w">>
\* the two-character Japanese word for "overview" that the code also looks for
s_Gaiyou == << "(gai)", "(you)" >>

HasOverview(text) == Contains(text, s_Gaiyou) \/ Contains(text, s_Overview)

_extract_description(content) ==
    LET lines == Split(content, "\n")
        headings == { j \in 1..Len(lines) : HasOverview(lines[j]) }
        first == CHOOSE j \in headings : \A k \in headings : j <= k
        stops == { j \in 1..Len(lines) :
                     /\ headings # {} /\ j > first
                     /\ ~HasOverview(lines[j]) /\ StartsWith(lines[j], << "#" >>) }
        stop == IF stops = {} THEN Len(lines) + 1
                ELSE CHOOSE j \in stops : \A k \in stops : j <= k
        kept == IF headings = {} THEN << >>
                ELSE Indices(lines, LAMBDA j : /\ j > first /\ j < stop
                                               /\ ~HasOverview(lines[j])
                                               /\ Len(Strip(lines[j])) > 0)
        description_lines == [j \in 1..Len(kept) |-> Strip(lines[kept[j]])]
    IN  Join(Prefix(description_lines, 3), << " " >>)

\* the first of CLAUDE.md, README.md, readme.md that exists is opened and read
\* outside any try
_get_project_info(e) ==
    LET info == [name |-> e.root.name, path |-> e.path, type |-> _detect_project_type(e)]
        readmes == Child(e.root, <<"C","L","A","U","D","E",".","m","d">>) \o Child(e.root, <<"R","E","A","D","M","E",".","m","d">>)
                   \o Child(e.root, <<"r","e","a","d","m","e",".","m","d">>)
    IN  IF Len(readmes) = 0 THEN Done(info)
        ELSE IF readmes[1].is_dir THEN Failed("IsADirectoryError")
        ELSE IF ~readmes[1].readable THEN Failed("UnicodeDecodeError")
        ELSE LET content == Prefix(readmes[1].text, 1000)
             IN  IF HasOverview(content)
                 THEN Done(DictMerge(info, "description" :> _extract_description(content)))
                 ELSE Done(info)

error_keywords == << s_ERROR, <<"F","A","I","L","E","D">>, <<"E","x","c","e","p","t","i","o","n">>, <<"E","r","r","o","r",":">>, <<"f","a","i","l">> >>

\* the first keyword of error_keywords that the line holds, << >> if none
KeywordOf(line) ==
    LET hits == SelectSeq(error_keywords, LAMBDA kw : Contains(line, kw))
    IN  IF Len(hits) = 0 THEN << >> ELSE << hits[1] >>

_extract_errors_from_file(f) ==
    IF ~Opens(f) THEN << >>
    ELSE LET lines == Last(Lines(f.text), 100)
             hits == Indices(lines, LAMBDA j : Len(KeywordOf(lines[j])) = 1)
         IN  [j \in 1..Len(hits) |->
                [type |-> KeywordOf(lines[hits[j]])[1],
                 file |-> f.name,
                 line |-> hits[j],
                 message |-> Prefix(Strip(lines[hits[j]]), 200),
                 timestamp |-> f.modified]]

\* docker ps -a --format '{{.Names}}\t{{.Status}}'; a missing binary, a timeout
\* and a nonzero exit all leave the list empty
_check_docker_errors(e) ==
    IF ~e.docker.ok THEN << >>
    ELSE LET lines == Split(Strip(e.docker.ps_all), "\n")
             Exited(line) ==
                 LET parts == Split(line, "\t")
                 IN  /\ Len(line) > 0
                     /\ Len(parts) = 2
                     /\ Contains(parts[2], <<"E","x","i","t","e","d">>) \/ Contains(parts[2], <<"E","r","r","o","r">>)
             hits == Indices(lines, LAMBDA j : Exited(lines[j]))
         IN  [j \in 1..Len(hits) |->
                LET parts == Split(lines[hits[j]], "\t")
                IN  [type |-> <<"D","o","c","k","e","r">>,
                     container |-> parts[1],
                     message |-> <<"C","o","n","t","a","i","n","e","r"," ">> \o parts[1] \o <<" ","i","s"," ","n","o","t"," ","r","u","n","n","i","n","g",":"," ">>
                                 \o parts[2],
                     timestamp |-> e.now_iso]]

RECURSIVE Deduplicate_KeepAll(_, _, _)
\* the loop without the test on seen
Deduplicate_KeepAll(errors, seen, unique_errors) ==
    IF Len(errors) = 0 THEN unique_errors
    ELSE IF Len(unique_errors) + 1 >= MaxErrors
    THEN Append(unique_errors, Head(errors))
    ELSE Deduplicate_KeepAll(Tail(errors), seen, Append(unique_errors, Head(errors)))

RECURSIVE Deduplicate(_, _, _)
\* the loop of _find_current_errors over the sorted errors
Deduplicate(errors, seen, unique_errors) ==
    IF Len(errors) = 0 THEN unique_errors
    ELSE LET error == Head(errors)
             key == << error.type, Prefix(error.message, 50) >>
         IN  IF key \in seen THEN Deduplicate(Tail(errors), seen, unique_errors)
             ELSE IF Len(unique_errors) + 1 >= MaxErrors
             THEN Append(unique_errors, error)
             ELSE Deduplicate(Tail(errors), seen \cup {key}, Append(unique_errors, error))

\* the errors of the log files, in glob order, then those of docker
CollectedErrors(e) ==
    LET log_files == Glob(<< e.root >>, <<".","l","o","g">>)
                     \o Glob(Child(e.root, <<"l","o","g","s">>), <<".","l","o","g">>)
                     \o Glob(Child(e.root, <<"t","e","s","t","-","r","e","p","o","r","t","s">>), <<".","t","x","t">>)
        is_file == SelectSeq(log_files, LAMBDA f : ~f.is_dir)
    IN  Flatten([j \in 1..Len(is_file) |-> _extract_errors_from_file(is_file[j])])
        \o _check_docker_errors(e)

\* the errors in the order they were collected
SortedNewestFirst_AsCollected(errors) == errors

\* sorted(errors, key=lambda x: x.get('timestamp', ''), reverse=True)
SortedNewestFirst(errors) ==
    LET sorted == SortPairsDescending(
                      [j \in 1..Len(errors) |->
                          << Get(errors[j], "timestamp", << >>), errors[j] >>])
    IN  [j \in 1..Len(sorted) |-> sorted[j][2]]

_find_current_errors(e) == Deduplicate(SortedNewestFirst(CollectedErrors(e)), {}, << >>)

\* json.load / yaml.safe_load of a file: << value >>, or << >> when the file
\* cannot be opened or parsed (the caller catches it)
Load(files) ==
    IF Len(files) > 0 /\ Opens(files[1]) /\ files[1].data.valid
    THEN << files[1].data.value >> ELSE << >>

\* the TODO file is read only when the cache gave no task
_get_current_tasks_EitherSource(e) ==
    LET data == Load(Child(e.root, <<".","c","l","a","u","d","e","-","t","a","s","k","-","c","a","c","h","e",".","j","s","o","n">>))
        cached == IF Len(data) = 1 THEN Get(data[1], "tasks", << >>) ELSE << >>
        todo == Child(e.root, <<"T","O","D","O",".","m","d">>)
        lines == IF Len(todo) > 0 /\ Opens(todo[1]) THEN Lines(todo[1].text) ELSE << >>
        open == Indices(lines, LAMBDA j : StartsWith(Strip(lines[j]), <<"-"," ","["," ","]">>))
    IN  IF Len(cached) > 0 THEN cached
        ELSE [j \in 1..Len(open) |->
                [content |-> Suffix(Strip(lines[open[j]]), 6),
                 status |-> s_pending,
                 priority |-> s_medium]]

_get_current_tasks(e) ==
    LET data == Load(Child(e.root, <<".","c","l","a","u","d","e","-","t","a","s","k","-","c","a","c","h","e",".","j","s","o","n">>))
        cached == IF Len(data) = 1 THEN Get(data[1], "tasks", << >>) ELSE << >>
        todo == Child(e.root, <<"T","O","D","O",".","m","d">>)
        lines == IF Len(todo) > 0 /\ Opens(todo[1]) THEN Lines(todo[1].text) ELSE << >>
        open == Indices(lines, LAMBDA j : StartsWith(Strip(lines[j]), <<"-"," ","["," ","]">>))
    IN  cached
        \o [j \in 1..Len(open) |->
              [content |-> Suffix(Strip(lines[open[j]]), 6),
               status |-> s_pending,
               priority |-> s_medium]]

\* requirements.txt lines and package.json dependency names, at most 10 each
_analyze_dependencies(e) ==
    LET req_file == Child(e.root, <<"r","e","q","u","i","r","e","m","e","n","t","s",".","t","x","t">>)
        lines == Lines(req_file[1].text)
        kept == Indices(lines, LAMBDA j : /\ Len(Strip(lines[j])) > 0
                                          /\ ~StartsWith(lines[j], << "#" >>))
        data == Load(Child(e.root, <<"p","a","c","k","a","g","e",".","j","s","o","n">>))
    IN  (IF Len(req_file) > 0 /\ Opens(req_file[1])
         THEN "python" :> Prefix([j \in 1..Len(kept) |-> Strip(lines[kept[j]])], 10)
         ELSE << >>)
        @@ (IF Len(data) = 1
            THEN "node" :> Prefix(Get(data[1], "dependencies", << >>), 10)
            ELSE << >>)

\* the reports are opened and never parsed
_get_test_status(e) == [passed |-> 0, failed |-> 0, skipped |-> 0]

\* docker ps --format '{{.Names}}\t{{.Status}}\t{{.Ports}}'
_get_docker_status(e) ==
    IF ~e.docker.ok THEN << >>
    ELSE LET lines == Split(Strip(e.docker.ps), "\n")
             hits == Indices(lines, LAMBDA j : /\ Len(lines[j]) > 0
                                               /\ Len(Split(lines[j], "\t")) >= 2)
         IN  [j \in 1..Len(hits) |->
                LET parts == Split(lines[hits[j]], "\t")
                IN  [name |-> parts[1],
                     status |-> parts[2],
                     ports |-> IF Len(parts) > 2 THEN parts[3] ELSE << >>]]

ignored_patterns ==
    { <<"_","_","p","y","c","a","c","h","e","_","_">>, <<".","g","i","t">>, <<".","p","y","t","e","s","t","_","c","a","c","h","e">>, <<"n","o","d","e","_","m","o","d","u","l","e","s">>, <<"v","e","n","v">>, <<".","v","e","n","v">>, <<"e","n","v">>,
      <<".","e","n","v">>, <<".","m","y","p","y","_","c","a","c","h","e">>, <<"*",".","p","y","c">>, <<"*",".","p","y","o">>, <<".","D","S","_","S","t","o","r","e">>, <<"T","h","u","m","b","s",".","d","b">> }

\* any(pattern in str(path) for pattern in self.ignored_patterns)
Ignored(path) == \E pattern \in ignored_patterns : Contains(path, pattern)

important_dirs == { <<"s","r","c">>, <<"a","p","p">>, <<"a","p","i">>, <<"s","e","r","v","i","c","e","s">>, <<"c","o","m","p","o","n","e","n","t","s">>, <<"t","e","s","t","s">>, <<"d","o","c","s">> }

\* sorted(path.iterdir()): siblings compare by name
SortedByName(children) ==
    LET descending == SortPairsDescending([j \in 1..Len(children) |->
                                              << children[j].name, children[j] >>])
    IN  [j \in 1..Len(children) |-> descending[Len(children) + 1 - j][2]]

NoTree == [ok |-> TRUE, none |-> TRUE]
Tree(tree) == [ok |-> TRUE, none |-> FALSE, tree |-> tree]

RECURSIVE _build_tree_FilesEverywhere(_, _, _)
\* the builder that lists the files of a directory at any depth
_build_tree_FilesEverywhere(node, path, depth) ==
    IF depth >= max_depth THEN NoTree
    ELSE IF ~node.is_dir
    THEN Tree([name |-> node.name, type |-> s_file, children |-> << >>])
    ELSE IF ~node.listable THEN Failed("PermissionError")
    ELSE LET seen == SelectSeq(SortedByName(node.children),
                               LAMBDA c : ~Ignored(path \o << "/" >> \o c.name))
             sub == [j \in 1..Len(seen) |->
                       IF seen[j].is_dir
                       THEN (IF seen[j].name \in important_dirs \/ depth < 2
                             THEN _build_tree_FilesEverywhere(seen[j], path \o << "/" >> \o seen[j].name,
                                              depth + 1)
                             ELSE NoTree)
                       ELSE IF TRUE
                       THEN Tree([name |-> seen[j].name, type |-> s_file])
                       ELSE NoTree]
             kept == Indices(sub, LAMBDA j : ~sub[j].none)
         IN  IF \E j \in 1..Len(sub) : ~sub[j].ok
             THEN Failed("PermissionError")
             ELSE Tree([name |-> node.name, type |-> s_directory,
                        children |-> [j \in 1..Len(kept) |-> sub[kept[j]].tree]])

RECURSIVE _build_tree(_, _, _)
\* NoTree where the code returns None; path.iterdir() is outside any try
_build_tree(node, path, depth) ==
    IF depth >= max_depth THEN NoTree
    ELSE IF ~node.is_dir
    THEN Tree([name |-> node.name, type |-> s_file, children |-> << >>])
    ELSE IF ~node.listable THEN Failed("PermissionError")
    ELSE LET seen == SelectSeq(SortedByName(node.children),
                               LAMBDA c : ~Ignored(path \o << "/" >> \o c.name))
             sub == [j \in 1..Len(seen) |->
                       IF seen[j].is_dir
                       THEN (IF seen[j].name \in important_dirs \/ depth < 2
                             THEN _build_tree(seen[j], path \o << "/" >> \o seen[j].name,
                                              depth + 1)
                             ELSE NoTree)
                       ELSE IF depth < 2
                       THEN Tree([name |-> seen[j].name, type |-> s_file])
                       ELSE NoTree]
             kept == Indices(sub, LAMBDA j : ~sub[j].none)
         IN  IF \E j \in 1..Len(sub) : ~sub[j].ok
             THEN Failed("PermissionError")
             ELSE Tree([name |-> node.name, type |-> s_directory,
                        children |-> [j \in 1..Len(kept) |-> sub[kept[j]].tree]])

_get_directory_structure(e) ==
    LET built == _build_tree(e.root, e.path, 0)
    IN  IF built.ok THEN Done(built.tree) ELSE built

RECURSIVE Walk(_, _)
\* project_path.rglob('*'): the entries of a directory, then those of each of
\* its subdirectories; rel is the path relative to the project, with its slash
Walk(dir, rel) ==
    IF ~dir.listable THEN << >>
    ELSE [j \in 1..Len(dir.children) |->
            [path |-> rel \o dir.children[j].name, node |-> dir.children[j]]]
         \o Flatten([j \in 1..Len(dir.children) |->
                        IF dir.children[j].is_dir
                        THEN Walk(dir.children[j], rel \o dir.children[j].name \o << "/" >>)
                        ELSE << >>])

\* the entries that pass the ignore test on their full path
Visible(e) ==
    SelectSeq(Walk(e.root, << >>), LAMBDA w : ~Ignored(e.path \o << "/" >> \o w.path))

entry_patterns ==
    << <<"m","a","i","n",".","p","y">>, <<"a","p","p",".","p","y">>, <<"i","n","d","e","x",".","j","s">>, <<"i","n","d","e","x",".","t","s">>, <<"m","a","i","n",".","g","o">>, <<"s","e","r","v","e","r",".","p","y">>, <<"s","e","r","v","e","r",".","j","s">>,
       <<"a","p","i",".","p","y">>, <<"a","p","p",".","j","s">> >>

config_patterns ==
    << <<"c","o","n","f","i","g",".","p","y">>, <<"s","e","t","t","i","n","g","s",".","p","y">>, <<"c","o","n","f","i","g",".","j","s","o","n">>, <<"c","o","n","f","i","g",".","y","a","m","l">>, <<".","e","n","v",".","e","x","a","m","p","l","e">>,
       <<"d","o","c","k","e","r","-","c","o","m","p","o","s","e",".","y","m","l">>, <<"M","a","k","e","f","i","l","e">> >>

_find_main_files(e) ==
    Flatten([p \in 1..Len(entry_patterns) |->
                LET found == SelectSeq(Visible(e),
                                       LAMBDA w : w.node.name = entry_patterns[p])
                IN  [j \in 1..Len(found) |->
                       [path |-> found[j].path, type |-> <<"e","n","t","r","y","_","p","o","i","n","t">>,
                        size |-> found[j].node.size]]])
    \o Flatten([p \in 1..Len(config_patterns) |->
                   LET found == Child(e.root, config_patterns[p])
                   IN  [j \in 1..Len(found) |->
                          [path |-> found[j].name, type |-> <<"c","o","n","f","i","g">>,
                           size |-> found[j].size]]])

\* py_file.stem
Stem(name) == Prefix(name, Len(name) - 3)

_detect_services(e) ==
    LET content == Load(Child(e.root, <<"d","o","c","k","e","r","-","c","o","m","p","o","s","e",".","y","m","l">>))
        declared == IF Len(content) = 1 THEN Get(content[1], "services", << >>) ELSE << >>
        apps == SelectSeq(Visible(e),
                          LAMBDA w : /\ EndsWith(w.node.name, <<".","p","y">>)
                                     /\ Opens(w.node)
                                     /\ \/ Contains(Prefix(w.node.text, 1000), <<"F","a","s","t","A","P","I","(",")">>)
                                        \/ Contains(Prefix(w.node.text, 1000),
                                                    <<"F","l","a","s","k","(","_","_","n","a","m","e","_","_",")">>))
    IN  [j \in 1..Len(declared) |->
           [name |-> declared[j][1], type |-> <<"d","o","c","k","e","r">>,
            ports |-> Get(declared[j][2], "ports", << >>)]]
        \o [j \in 1..Len(apps) |->
              [name |-> Stem(apps[j].node.name), type |-> <<"a","p","i">>, file |-> apps[j].path]]

database_patterns ==
    << << <<"D","A","T","A","B","A","S","E","_","U","R","L">>, <<"p","o","s","t","g","r","e","s","q","l">> >>, << <<"M","O","N","G","O","_","U","R","L">>, <<"m","o","n","g","o","d","b">> >>,
       << <<"R","E","D","I","S","_","U","R","L">>, <<"r","e","d","i","s">> >>, << <<"M","Y","S","Q","L","_">>, <<"m","y","s","q","l">> >>,
       << <<"T","I","M","E","S","C","A","L","E">>, <<"t","i","m","e","s","c","a","l","e","d","b">> >> >>

\* the set the code collects; list(databases) puts it in an order of its own
DetectedDatabases(e) ==
    LET files == Child(e.root, <<".","e","n","v">>) \o Child(e.root, <<".","e","n","v",".","e","x","a","m","p","l","e">>)
                 \o Child(e.root, <<"d","o","c","k","e","r","-","c","o","m","p","o","s","e",".","y","m","l">>)
    IN  { database_patterns[p][2] :
            p \in { q \in 1..Len(database_patterns) :
                      \E j \in 1..Len(files) :
                          /\ Opens(files[j])
                          /\ Contains(files[j].text, database_patterns[q][1]) } }

\* every list whose elements are exactly those of the set
ListsOf(S) ==
    { xs \in [1..Cardinality(S) -> S] : \A x \in S : \E j \in 1..Cardinality(S) : xs[j] = x }

_analyze_architecture(e, databases) ==
    LET structure == _get_directory_structure(e)
    IN  IF ~structure.ok THEN structure
        ELSE Done([structure |-> structure.value,
                   main_files |-> _find_main_files(e),
                   services |-> _detect_services(e),
                   databases |-> databases])

\* git log --oneline -10; a failure of git leaves the commits empty
_get_recent_changes(e) ==
    LET lines == IF e.git.ok THEN Split(Strip(e.git.stdout), "\n") ELSE << >>
        Parts(line) ==
            LET spaces == { j \in 1..Len(line) : line[j] = " " }
                cut == CHOOSE j \in spaces : \A k \in spaces : j <= k
            IN  IF spaces = {} THEN << line >>
                ELSE << Prefix(line, cut - 1), Suffix(line, cut) >>
        hits == Indices(lines, LAMBDA j : Len(lines[j]) > 0 /\ Len(Parts(lines[j])) = 2)
        changes == [j \in 1..Len(hits) |->
                      [commit |-> Parts(lines[hits[j]])[1],
                       message |-> Parts(lines[hits[j]])[2]]]
        fresh == SelectSeq(Visible(e), LAMBDA w : ~w.node.is_dir /\ w.node.fresh)
        recent_files == SortPairsDescending(
                            [j \in 1..Len(fresh) |->
                                << fresh[j].node.modified,
                                   [path |-> fresh[j].path,
                                    modified |-> fresh[j].node.modified] >>])
    IN  [commits |-> Prefix(changes, 5),
         files |-> Prefix([j \in 1..Len(recent_files) |-> recent_files[j][2]], 5)]

\* the ProjectState, or the exception that escapes a collector; databases is
\* the order list(set) gave the detected databases
analyze_project_state(e, databases) ==
    LET project_info == _get_project_info(e)
        architecture == _analyze_architecture(e, databases)
    IN  IF ~project_info.ok THEN project_info
        ELSE IF ~architecture.ok THEN architecture
        ELSE Done([project_info |-> project_info.value,
                   current_errors |-> _find_current_errors(e),
                   architecture |-> architecture.value,
                   recent_changes |-> _get_recent_changes(e),
                   tasks |-> _get_current_tasks(e),
                   dependencies |-> _analyze_dependencies(e),
                   test_status |-> _get_test_status(e),
                   docker_status |-> _get_docker_status(e)])

-----------------------------------------------------------------------------
(* Project directories handed to compress_project                          *)

\* modification times: s_old is more than a day before the clock of Envs,
\* s_stamp and s_later are within the day
s_old == <<"2","0","2","5","-","0","1","-","1","0","T","1","0",":","0","0",":","0","0">>
s_later == <<"2","0","2","5","-","0","1","-","1","5","T","1","1",":","3","0",":","0","0">>

File(name, text) ==
    [name |-> name, is_dir |-> FALSE, readable |-> TRUE, text |-> text,
     size |-> Len(text), fresh |-> FALSE, modified |-> s_old]

Dir(name, children) ==
    [name |-> name, is_dir |-> TRUE, listable |-> TRUE, children |-> children,
     size |-> 4096]

\* a JSON or YAML file and what parsing it gives
DataFile(name, data) ==
    [name |-> name, is_dir |-> FALSE, readable |-> TRUE, text |-> << >>, data |-> data,
     size |-> 64, fresh |-> FALSE, modified |-> s_old]

Parsed(value) == [valid |-> TRUE, value |-> value]
Unparsed == [valid |-> FALSE]

Readme == File(<<"R","E","A","D","M","E",".","m","d">>, <<"#"," ","P","r","o","j","\n","\n","#","#"," ","O","v","e","r","v","i","e","w","\n","A"," ","d","e","m","o"," ","s","e","r","v","i","c","e",".","\n","\n","#","#"," ","U","s","a","g","e","\n","r","u","n"," ","i","t","\n">>)

\* a README whose bytes are not UTF-8
BinaryReadme == [Readme EXCEPT !.readable = FALSE]

Readmes == { << >>, << Readme >>, << BinaryReadme >> }

TaskCache == DataFile(<<".","c","l","a","u","d","e","-","t","a","s","k","-","c","a","c","h","e",".","j","s","o","n">>, Parsed([tasks |-> TestTasks]))

\* {"tasks": [{"priority": "high"}]}
PartialTaskCache == DataFile(<<".","c","l","a","u","d","e","-","t","a","s","k","-","c","a","c","h","e",".","j","s","o","n">>, Parsed([tasks |-> BadTasks]))

BrokenTaskCache == DataFile(<<".","c","l","a","u","d","e","-","t","a","s","k","-","c","a","c","h","e",".","j","s","o","n">>, Unparsed)

TaskCaches == { << >>, << TaskCache >>, << PartialTaskCache >>, << BrokenTaskCache >> }

MainPy == [File(<<"m","a","i","n",".","p","y">>, <<"a","p","p"," ","="," ","F","a","s","t","A","P","I","(",")","\n">>) EXCEPT !.fresh = TRUE, !.modified = s_later]

SrcDir == Dir(<<"s","r","c">>, << MainPy, [File(<<"u","t","i","l",".","p","y">>, <<"x"," ","="," ","1","\n">>) EXCEPT !.fresh = TRUE, !.modified = s_stamp] >>)

\* a source directory the process may not list
LockedSrcDir == [SrcDir EXCEPT !.listable = FALSE]

SrcDirs == { SrcDir, LockedSrcDir }

ErrorLog ==
    [File(<<"e","r","r","o","r",".","l","o","g">>, <<"I","N","F","O"," ","o","k","\n","E","R","R","O","R"," ","d","b"," ","d","o","w","n","\n","E","R","R","O","R"," ","d","b"," ","d","o","w","n","\n"," "," ","t","e","s","t"," ","f","a","i","l","e","d"," "," ","\n">>)
        EXCEPT !.fresh = TRUE, !.modified = s_later]

Compose ==
    [DataFile(<<"d","o","c","k","e","r","-","c","o","m","p","o","s","e",".","y","m","l">>,
              Parsed([services |-> << << <<"w","e","b">>, [ports |-> << <<"8","0","0","0",":","8","0","0","0">> >>] >>,
                                      << <<"d","b">>, << >> >> >>]))
        EXCEPT !.text = <<"M","Y","S","Q","L","_","R","O","O","T","=","x">>]

Root(readme, cache, src) ==
    Dir(<<"p","r","o","j">>,
        readme \o cache
        \o << src,
              Dir(<<"l","o","g","s">>, << ErrorLog >>),
              Dir(<<"n","o","d","e","_","m","o","d","u","l","e","s">>, << File(<<"i","n","d","e","x",".","j","s">>, <<"x">>) >>),
              File(<<"r","e","q","u","i","r","e","m","e","n","t","s",".","t","x","t">>, <<"f","a","s","t","a","p","i","\n","#"," ","d","e","v","\n","p","y","t","e","s","t","\n">>),
              File(<<"T","O","D","O",".","m","d">>, <<"-"," ","["," ","]"," ","w","r","i","t","e"," ","d","o","c","s","\n","-"," ","[","x","]"," ","d","o","n","e","\n">>),
              File(<<".","e","n","v",".","e","x","a","m","p","l","e">>, <<"D","A","T","A","B","A","S","E","_","U","R","L","=","x","\n">>),
              Compose >>)

NoTools == [git |-> [ok |-> FALSE], docker |-> [ok |-> FALSE]]

Tools ==
    [git |-> [ok |-> TRUE, stdout |-> <<"a","b","c","1","2","3"," ","f","e","a","t",":"," ","a","d","d","\n","d","e","f","4","5","6"," ","f","i","x","\n","n","o","s","p","a","c","e","\n">>],
     docker |-> [ok |-> TRUE,
                 ps_all |-> <<"w","e","b","\t","U","p"," ","2"," ","h","o","u","r","s","\n","d","b","\t","E","x","i","t","e","d"," ","(","1",")"," ","3"," ","m","i","n","u","t","e","s"," ","a","g","o","\n">>,
                 ps |-> <<"w","e","b","\t","U","p"," ","2"," ","h","o","u","r","s","\t","0",".","0",".","0",".","0",":","8","0","0","0","-",">","8","0","0","0","/","t","c","p","\n">>]]

Env(root, tools) ==
    [path |-> <<"/","w","/","p","r","o","j">>, root |-> root, git |-> tools.git, docker |-> tools.docker,
     now_iso |-> <<"2","0","2","5","-","0","1","-","1","5","T","1","2",":","0","0",":","0","0">>]

\* a project at rest: no git, no docker, no log, nothing modified within the
\* day, no TODO.md, and a task cache whose only entry has priority low
QuietEnv ==
    Env(Dir(<<"p","r","o","j">>,
            << Readme,
               DataFile(<<".","c","l","a","u","d","e","-","t","a","s","k","-","c","a","c","h","e",".","j","s","o","n">>,
                        Parsed([tasks |-> << [content |-> <<"T","a","s","k"," ","2">>, priority |-> s_low] >>])),
               Dir(<<"s","r","c">>, << File(<<"m","a","i","n",".","p","y">>, <<"p","r","i","n","t","(","1",")","\n">>) >>) >>),
        NoTools)

\* a project with more of everything than the collectors keep: two logs of
\* different age with repeated lines and lines alike in their first 50
\* characters, seven commits, six files modified within the day, four high
\* tasks in the cache and four open TODO lines
BusyLog ==
    [File(<<"e","r","r","o","r",".","l","o","g">>,
          <<"E","R","R","O","R"," ","j","o","b"," ","1"," ","f","a","i","l","e","d","\n","E","R","R","O","R"," ","j","o","b"," ","1"," ","f","a","i","l","e","d","\n">>
          \o <<"E","R","R","O","R"," ">> \o Rep("x", 44) \o <<"A","\n">>
          \o <<"E","R","R","O","R"," ">> \o Rep("x", 44) \o <<"B","\n">>
          \o Flatten([n \in 1..11 |-> <<"E","R","R","O","R"," ","j","o","b"," ">> \o IntChars(n + 1) \o <<" ","f","a","i","l","e","d","\n">>]))
        EXCEPT !.fresh = TRUE, !.modified = s_later]

OldLog ==
    [File(<<"a","p","p",".","l","o","g">>, <<"F","A","I","L","E","D"," ","n","i","g","h","t","l","y"," ","b","u","i","l","d","\n","E","R","R","O","R"," ","j","o","b"," ","1"," ","f","a","i","l","e","d","\n">>)
        EXCEPT !.fresh = TRUE, !.modified = s_stamp]

BusyEnv ==
    [Env(Dir(<<"p","r","o","j">>,
             << OldLog,
                Dir(<<"l","o","g","s">>, << BusyLog >>),
                Dir(<<"s","r","c">>,
                    << MainPy,
                       [File(<<"u","t","i","l",".","p","y">>, <<"x"," ","="," ","1","\n">>) EXCEPT !.fresh = TRUE, !.modified = s_stamp],
                       [File(<<"a",".","p","y">>, <<"a"," ","="," ","1","\n">>) EXCEPT !.fresh = TRUE, !.modified = s_stamp],
                       [File(<<"b",".","p","y">>, <<"b"," ","="," ","1","\n">>) EXCEPT !.fresh = TRUE, !.modified = s_stamp] >>),
                DataFile(<<".","c","l","a","u","d","e","-","t","a","s","k","-","c","a","c","h","e",".","j","s","o","n">>,
                         Parsed([tasks |-> [n \in 1..4 |->
                                              [content |-> <<"T","a","s","k"," ">> \o IntChars(n),
                                               priority |-> s_high]]])),
                File(<<"T","O","D","O",".","m","d">>,
                     Flatten([n \in 1..4 |-> <<"-"," ","["," ","]"," ","t","o","d","o"," ">> \o IntChars(n) \o <<"\n">>])) >>),
         Tools)
        EXCEPT !.git.stdout =
                   Flatten([n \in 1..7 |->
                               <<"a","b","c">> \o IntChars(n) \o <<" ","c","h","a","n","g","e"," ">> \o IntChars(n) \o <<"\n">>])]

\* a project whose .env names two databases and whose src is four levels deep
StoresEnv ==
    Env(Dir(<<"p","r","o","j">>,
            << Readme,
               File(<<".","e","n","v">>, <<"D","A","T","A","B","A","S","E","_","U","R","L","=","x","\n","R","E","D","I","S","_","U","R","L","=","y","\n">>),
               Dir(<<"s","r","c">>,
                   << Dir(<<"a","p","i">>,
                          << Dir(<<"r","o","u","t","e","s">>, << File(<<"d","e","e","p",".","p","y">>, <<"x"," ","="," ","1","\n">>) >>),
                             File(<<"v","i","e","w","s",".","p","y">>, <<"x"," ","="," ","2","\n">>) >>),
                      Dir(<<"l","i","b">>, << File(<<"x",".","p","y">>, <<"x"," ","="," ","3","\n">>) >>),
                      File(<<"m","a","i","n",".","p","y">>, <<"p","r","i","n","t","(","1",")","\n">>) >>) >>),
        NoTools)

Envs ==
    { Env(Root(readme, cache, src), tools) :
        readme \in Readmes, cache \in TaskCaches, src \in SrcDirs,
        tools \in { NoTools, Tools } }
    \cup { QuietEnv, BusyEnv, StoresEnv }

\* the max_tokens arguments of compress_project; 5000 is its default
CompressBudgets == { 100, 5000 }

-----------------------------------------------------------------------------
(* The calls                                                               *)

NoExc == [type |-> "none", at |-> "none"]

\* __init__: self.config = self._load_config(config_path)
Init ==
    /\ config_document \in ConfigDocs
    /\ config = _load_config(config_document)
    /\ pc = "idle"
    /\ call = "none"
    /\ env = << >>
    /\ state = << >>
    /\ max_tokens = 0
    /\ format = "none"
    /\ idx = 0
    /\ priority_config = << >>
    /\ filtered = << >>
    /\ estimated_tokens = 0
    /\ output = << >>
    /\ exc = NoExc
    /\ clock = << >>
    /\ previous = << >>
    /\ ret_lines = << >>
    /\ arg_tree = << >>

\* compress_project(project_path, max_tokens, format) is entered
CallCompress(e, budget, fmt) ==
    /\ pc = "idle"
    /\ call' = "compress_project"
    /\ env' = e
    /\ max_tokens' = budget
    /\ format' = fmt
    /\ pc' = "analyze"
    /\ UNCHANGED << config, state, idx, priority_config, filtered, estimated_tokens,
                    output, exc >>
    /\ UNCHANGED << arg_tree, ret_lines >>
    /\ UNCHANGED << previous, clock >>
    /\ UNCHANGED << config_document >>

\* state = self.analyze_project_state(project_path): the eight collectors run
\* to the end, or the exception of one of them leaves compress_project
Analyze ==
    /\ pc = "analyze"
    /\ \E databases \in ListsOf(DetectedDatabases(env)) :
          \E analyzed \in { analyze_project_state(env, databases) } :
              IF analyzed.ok
              THEN /\ state' = analyzed.value
                   /\ pc' = "filter"
                   /\ exc' = exc
              ELSE /\ pc' = "raised"
                   /\ exc' = [type |-> analyzed.type, at |-> "analyze_project_state"]
                   /\ state' = state
    /\ UNCHANGED << config, call, env, max_tokens, format, idx, priority_config,
                    filtered, estimated_tokens, output >>
    /\ UNCHANGED << arg_tree, ret_lines >>
    /\ UNCHANGED << previous, clock >>
    /\ UNCHANGED << config_document >>

\* a caller hands a ProjectState to filter_by_importance, as the tests do
CallFilter(st, budget) ==
    /\ pc = "idle"
    /\ call' = "filter_by_importance"
    /\ state' = st
    /\ max_tokens' = budget
    /\ pc' = "filter"
    /\ UNCHANGED << config, env, format, idx, priority_config, filtered,
                    estimated_tokens, output, exc >>
    /\ UNCHANGED << arg_tree, ret_lines >>
    /\ UNCHANGED << previous, clock >>
    /\ UNCHANGED << config_document >>

\* filter_by_importance up to its loop: the read of the priority order, which
\* is a KeyError when the loaded configuration lacks a key on the way
FilterBegin ==
    /\ pc = "filter"
    /\ IF HasPriorityOrder(config)
       THEN /\ priority_config' =
                   config.knowledge_compression.claude_code_optimization.priority_order
            /\ filtered' = << >>
            /\ estimated_tokens' = 0
            /\ idx' = 1
            /\ pc' = "filter_loop"
            /\ exc' = exc
       ELSE /\ pc' = "raised"
            /\ exc' = [type |-> "KeyError", at |-> "filter_by_importance"]
            /\ UNCHANGED << priority_config, filtered, estimated_tokens, idx >>
    /\ UNCHANGED << config, call, env, state, max_tokens, format, output >>
    /\ UNCHANGED << arg_tree, ret_lines >>
    /\ UNCHANGED << previous, clock >>
    /\ UNCHANGED << config_document >>

\* one iteration of a loop that ends at the first section that does not fit
FilterStep_BreakOnSkip ==
    /\ pc = "filter_loop"
    /\ idx <= Len(priority_config)
    /\ LET key == ResolvedKey(priority_config[idx], state)
       IN  IF Len(key) = 1 /\ Fits(estimated_tokens, SectionTokens(key[1], state), max_tokens)
           THEN /\ filtered' = IncludeSection(filtered, key[1], state)
                /\ estimated_tokens' = estimated_tokens + SectionTokens(key[1], state)
                /\ idx' = idx + 1
           ELSE /\ UNCHANGED << filtered, estimated_tokens >>
                /\ idx' = IF Len(key) = 1 THEN Len(priority_config) + 1 ELSE idx + 1
    /\ UNCHANGED << config, pc, call, env, state, max_tokens, format,
                    priority_config, output, exc >>
    /\ UNCHANGED << arg_tree, ret_lines >>
    /\ UNCHANGED << previous, clock >>
    /\ UNCHANGED << config_document >>

\* one iteration of a loop that moves the section out of state: state.pop(state_key)
FilterStep_Consuming ==
    /\ pc = "filter_loop"
    /\ idx <= Len(priority_config)
    /\ LET key == ResolvedKey(priority_config[idx], state)
       IN  IF Len(key) = 1 /\ Fits(estimated_tokens, SectionTokens(key[1], state), max_tokens)
           THEN /\ filtered' = IncludeSection(filtered, key[1], state)
                /\ estimated_tokens' = estimated_tokens + SectionTokens(key[1], state)
                /\ state' = [k \in DOMAIN state \ { key[1] } |-> state[k]]
           ELSE UNCHANGED << filtered, estimated_tokens, state >>
    /\ idx' = idx + 1
    /\ UNCHANGED << config, pc, call, env, max_tokens, format,
                    priority_config, output, exc >>
    /\ UNCHANGED << arg_tree, ret_lines >>
    /\ UNCHANGED << previous, clock >>
    /\ UNCHANGED << config_document >>

\* one iteration of a loop that starts the running total afresh when it skips a section
FilterStep_ResetOnSkip ==
    /\ pc = "filter_loop"
    /\ idx <= Len(priority_config)
    /\ LET key == ResolvedKey(priority_config[idx], state)
       IN  IF Len(key) = 1 /\ Fits(estimated_tokens, SectionTokens(key[1], state), max_tokens)
           THEN /\ filtered' = IncludeSection(filtered, key[1], state)
                /\ estimated_tokens' = estimated_tokens + SectionTokens(key[1], state)
           ELSE /\ filtered' = filtered
                /\ estimated_tokens' = 0
    /\ idx' = idx + 1
    /\ UNCHANGED << config, pc, call, env, state, max_tokens, format,
                    priority_config, output, exc >>
    /\ UNCHANGED << arg_tree, ret_lines >>
    /\ UNCHANGED << previous, clock >>
    /\ UNCHANGED << config_document >>

\* one iteration of the loop over priority_config
FilterStep ==
    /\ pc = "filter_loop"
    /\ idx <= Len(priority_config)
    /\ LET key == ResolvedKey(priority_config[idx], state)
       IN  IF Len(key) = 1 /\ Fits(estimated_tokens, SectionTokens(key[1], state), max_tokens)
           THEN /\ filtered' = IncludeSection(filtered, key[1], state)
                /\ estimated_tokens' = estimated_tokens + SectionTokens(key[1], state)
           ELSE UNCHANGED << filtered, estimated_tokens >>
    /\ idx' = idx + 1
    /\ UNCHANGED << config, pc, call, env, state, max_tokens, format,
                    priority_config, output, exc >>
    /\ UNCHANGED << arg_tree, ret_lines >>
    /\ UNCHANGED << previous, clock >>
    /\ UNCHANGED << config_document >>

\* after the loop: project_info is added and filtered is returned
FilterReturn ==
    /\ pc = "filter_loop"
    /\ idx > Len(priority_config)
    /\ filtered' = AddProjectInfo(filtered, state)
    /\ pc' = IF call = "compress_project" THEN "format" ELSE "returned"
    /\ UNCHANGED << config, call, env, state, max_tokens, format, idx,
                    priority_config, estimated_tokens, output, exc >>
    /\ UNCHANGED << arg_tree, ret_lines >>
    /\ UNCHANGED << previous, clock >>
    /\ UNCHANGED << config_document >>

\* the caller of filter_by_importance renders the result in the primary format
CallFormat ==
    /\ pc = "returned"
    /\ call = "filter_by_importance"
    /\ call' = "format_for_claude_code"
    /\ format' = "claude-code"
    /\ pc' = "format"
    /\ UNCHANGED << config, env, state, max_tokens, idx, priority_config, filtered,
                    estimated_tokens, output, exc >>
    /\ UNCHANGED << arg_tree, ret_lines >>
    /\ UNCHANGED << previous, clock >>
    /\ UNCHANGED << config_document >>

\* the render step on filtered, with the clock read for the footer
Format(now) ==
    /\ pc = "format"
    /\ Len(previous) = 1 => now = clock
    /\ clock' = now
    /\ LET r == Render(format, filtered, now)
       IN  IF r.ok
           THEN /\ output' = r.lines
                /\ pc' = "done"
                /\ exc' = exc
           ELSE /\ pc' = "raised"
                /\ exc' = [type |-> "KeyError", at |-> "format_for_claude_code"]
                /\ output' = output
    /\ UNCHANGED << config, call, env, state, max_tokens, format, idx,
                    priority_config, filtered, estimated_tokens >>
    /\ UNCHANGED << arg_tree, ret_lines >>
    /\ UNCHANGED previous
    /\ UNCHANGED << config_document >>

\* the pipeline is run again by a new process, as a command line does: the
\* same project, configuration and arguments, and the clock held at its value
Rerun ==
    /\ pc = "done"
    /\ call = "compress_project"
    /\ Len(previous) = 0
    /\ previous' = << output >>
    /\ pc' = "analyze"
    /\ state' = << >>
    /\ idx' = 0
    /\ priority_config' = << >>
    /\ filtered' = << >>
    /\ estimated_tokens' = 0
    /\ output' = << >>
    /\ UNCHANGED << config, config_document, call, env, max_tokens, format, exc,
                    clock, arg_tree, ret_lines >>

Next ==
    \/ \E e \in Envs, budget \in CompressBudgets, fmt \in Formats :
           CallCompress(e, budget, fmt)
    \/ Analyze
    \/ \E st \in DirectStates, budget \in Budgets : CallFilter(st, budget)
    \/ FilterBegin
    \/ FilterStep
    \/ FilterReturn
    \/ CallFormat
    \/ \E now \in Clocks : Format(now)
    \/ Rerun

Spec == Init /\ [][Next]_vars

-----------------------------------------------------------------------------
(* Calls of the tree printer                                               *)

\* a directory of the trees below has at most MaxChildren children
MaxChildren == 2

FileNode(name) == [name |-> name, type |-> s_file]
DirectoryNode(name, children) == [name |-> name, type |-> s_directory, children |-> children]

\* the lists of at most n nodes of S whose names differ, as siblings' do
Siblings(S, n) ==
    { cs \in UNION { [1..k -> S] : k \in 0..n } :
        \A i, j \in 1..Len(cs) : i # j => cs[i].name # cs[j].name }

Leaves == { DirectoryNode(<<"a">>, << >>), FileNode(<<"b",".","t","x","t">>), FileNode(<<"c",".","p","y">>) }

Branches == { DirectoryNode(<<"s","r","c">>, cs) : cs \in Siblings(Leaves, MaxChildren) }

\* the tree of test_format_tree, in the names of the specification's example
ExampleTree == DirectoryNode(<<"r","o","o","t">>, << DirectoryNode(<<"a">>, << >>), FileNode(<<"b",".","t","x","t">>) >>)

\* a tree with nodes at depth 3, in both a continuing and a last branch
DeepTree ==
    DirectoryNode(<<"r","o","o","t">>,
        << DirectoryNode(<<"s","r","c">>,
               << DirectoryNode(<<"l","i","b">>, << FileNode(<<"x",".","p","y">>), FileNode(<<"y",".","p","y">>) >>),
                  FileNode(<<"m","a","i","n",".","p","y">>) >>),
           DirectoryNode(<<"d","o","c","s">>,
               << DirectoryNode(<<"g","e","n">>, << FileNode(<<"z",".","m","d">>) >>) >>) >>)

Trees ==
    { DirectoryNode(<<"r","o","o","t">>, cs) : cs \in Siblings(Leaves \cup Branches, MaxChildren) }
        \cup { SomeTree, DeepTree }

\* a KnowledgeCompressor with the built-in configuration, and a tree in hand
TreeInit ==
    /\ config_document = NoDoc
    /\ config = _load_config(config_document)
    /\ pc = "idle"
    /\ call = "none"
    /\ env = << >>
    /\ state = << >>
    /\ max_tokens = 0
    /\ format = "none"
    /\ idx = 0
    /\ priority_config = << >>
    /\ filtered = << >>
    /\ estimated_tokens = 0
    /\ output = << >>
    /\ exc = NoExc
    /\ ret_lines = << >>
    /\ previous = << >>
    /\ clock = << >>
    /\ arg_tree \in Trees

\* lines = compressor._format_tree(tree), as test_format_tree calls it
FormatTree ==
    /\ pc = "idle"
    /\ call' = "_format_tree"
    /\ LET r == _format_tree(arg_tree, << >>)
       IN  IF r.ok
           THEN /\ ret_lines' = r.lines
                /\ pc' = "returned"
                /\ exc' = exc
           ELSE /\ pc' = "raised"
                /\ exc' = [type |-> "KeyError", at |-> "_format_tree"]
                /\ ret_lines' = ret_lines
    /\ UNCHANGED << config, env, state, max_tokens, format, idx, priority_config,
                    filtered, estimated_tokens, output, arg_tree, previous, clock,
                    config_document >>

TreeNext == FormatTree

TreeSpec == TreeInit /\ [][TreeNext]_vars

-----------------------------------------------------------------------------
(* Properties                                                              *)

MappedKeys == { priority_mapping[n] : n \in DOMAIN priority_mapping }

RECURSIVE SumTokens(_, _)
\* the estimated cost, in quarter tokens, of the sections keys of the dict d
SumTokens(keys, d) ==
    IF keys = {} THEN 0
    ELSE LET k == CHOOSE x \in keys : TRUE
         IN  Len(json_dumps(k, d[k])) + SumTokens(keys \ {k}, d)

\* the estimated cost of what filtered holds besides project_info
IncludedCost == SumTokens(DOMAIN filtered \ {"project_info"}, filtered)

\* filter_by_importance has returned filtered
Returned ==
    \/ pc \in {"returned", "format", "done"}
    \/ pc = "raised" /\ exc.at = "format_for_claude_code"

\* the pass is in its loop or has returned
Allocating == pc = "filter_loop" \/ Returned

\* a present section of state that the result does not hold
Skipped(k) == k \in DOMAIN state /\ k \in MappedKeys /\ k \notin DOMAIN filtered

\* C1: for every max_tokens >= 0, at every step of the allocation pass and in
\* the CompressedState it returns, the estimated costs of the included
\* sections other than project_info sum to at most max_tokens.
C1_BudgetNeverExceeded ==
    (Allocating /\ max_tokens >= 0) => IncludedCost <= 4 * max_tokens

\* the budget binds: it is filled exactly and a present section is left out
C1_Witness ==
    /\ pc = "returned"
    /\ max_tokens > 0
    /\ IncludedCost = 4 * max_tokens
    /\ \E k \in MappedKeys : Skipped(k)

\* C2: the CompressedState filter_by_importance returns always holds
\* project_info, whatever the budget and the priority order, and adding it
\* leaves the running total as it was.
C2_ProjectInfoAlwaysIncluded ==
    /\ [](Returned => /\ "project_info" \in DOMAIN filtered
                      /\ filtered["project_info"] = state["project_info"])
    /\ [][(pc = "filter_loop" /\ pc' # "filter_loop")
            => /\ "project_info" \in DOMAIN filtered'
               /\ estimated_tokens' = estimated_tokens]_vars

\* budget 0 and sections present: the result is project_info alone
C2_Witness ==
    /\ pc = "returned"
    /\ max_tokens = 0
    /\ DOMAIN filtered = {"project_info"}
    /\ \E k \in MappedKeys : Skipped(k)

\* no section key is reached twice by the priority order
NoRepeatedSection ==
    \A i, j \in 1..Len(priority_config) :
        (i # j /\ priority_config[i] \in DOMAIN priority_mapping)
            => priority_config[i] # priority_config[j]

C4_SectionsVerbatim ==
    Allocating => \A k \in DOMAIN filtered : k \in DOMAIN state /\ filtered[k] = state[k]

\* a three-entry section is held whole while another present section is left out
C4_Witness ==
    /\ pc = "returned"
    /\ "current_errors" \in DOMAIN filtered
    /\ Len(filtered["current_errors"]) = 3
    /\ \E k \in MappedKeys : Skipped(k)

\* C5: analyze_project_state never raises: a collector whose source fails
\* returns its empty or default payload and the other sections are collected.
C5_AnalyzeNeverRaises == ~(pc = "raised" /\ exc.at = "analyze_project_state")

\* C6: for every CompressedState the allocator produces, the render step does
\* not raise, and the document format_for_claude_code returns begins with the
\* title banner and ends with the footer.
C6_RenderAlwaysCompletes ==
    /\ ~(pc = "raised" /\ exc.at = "format_for_claude_code")
    /\ (pc = "done" /\ format # "mindmap")
          => /\ Prefix(output, 1) = TitleLine
             /\ Suffix(output, Len(output) - 1) = FooterNext

\* C7: filter_by_importance never raises, for any ProjectState and any loaded
\* configuration.
C7_FilterNeverRaises == ~(pc = "raised" /\ exc.at = "filter_by_importance")

\* the payload is an empty list or an empty mapping
IsEmpty(payload) == DOMAIN payload = {}

\* C8: a logical name whose section is absent or empty (an empty list or an
\* empty mapping) is skipped: its section key is not a key of the
\* CompressedState, so nothing is charged to the running total for it.
C8_AbsentOrEmptySkipped ==
    Allocating =>
        \A k \in MappedKeys :
            (k \notin DOMAIN state \/ IsEmpty(state[k])) => k \notin DOMAIN filtered

\* the spec's scenario: order [errors_and_issues, current_tasks], budget 100,
\* a current_errors section of 150 tokens; the pass has returned
Scenario ==
    /\ pc = "returned"
    /\ priority_config = << "errors_and_issues", "current_tasks" >>
    /\ max_tokens = 100
    /\ "current_errors" \in DOMAIN state
    /\ Len(json_dumps("current_errors", state["current_errors"])) = 4 * 150

\* C9 as stated: in the scenario the result holds neither current_errors nor
\* tasks, and holds project_info.
C9_ScenarioNothingBelow ==
    Scenario => /\ "current_errors" \notin DOMAIN filtered
                /\ "tasks" \notin DOMAIN filtered
                /\ "project_info" \in DOMAIN filtered

\* C9 amended: in the scenario the result does not hold current_errors, holds
\* project_info, and holds tasks exactly when tasks is present and costs at
\* most 100 tokens by itself.
C9_ScenarioAmended ==
    Scenario => /\ "current_errors" \notin DOMAIN filtered
                /\ "project_info" \in DOMAIN filtered
                /\ DOMAIN filtered \subseteq {"project_info", "tasks"}
                /\ "tasks" \in DOMAIN filtered
                     <=> /\ "tasks" \in DOMAIN state
                         /\ Len(json_dumps("tasks", state["tasks"])) <= 4 * 100

\* the scenario with a two-entry tasks section, which is included
C9_Witness == Scenario /\ "tasks" \in DOMAIN filtered /\ Len(filtered["tasks"]) = 2

\* the 'current location' block of the project's name and type, as rendered
IdentityBlock(info) ==
    LocationHeading \o << "\n", "\n" >> \o OverviewHeading
    \o << "\n", "- **Name**: " >> \o info.name
    \o << "\n", "- **Type**: " >> \o info.type

\* C10: for every budget and every format compress_project accepts, the text
\* it returns contains the 'current location' block with the project's name
\* and type.
C10_IdentityInEveryFormat ==
    (pc = "done" /\ call = "compress_project")
        => Contains(output, IdentityBlock(state.project_info))

\* the section of the CompressedState behind a block heading
Backing(heading) ==
    CASE heading = IssuesHeading[1] -> "current_errors"
      [] heading = ArchitectureHeading[1] -> "architecture"
      [] heading = TasksHeading[1] -> "tasks"
      [] heading = ChangesHeading[1] -> "recent_changes"

BlockHeadings ==
    { IssuesHeading[1], ArchitectureHeading[1], TasksHeading[1], ChangesHeading[1] }

\* the heading at position p of output has nothing under it: an empty line
\* follows, then the next block or the footer
EmptyBodyAt(p) ==
    /\ p + 3 <= Len(output)
    /\ output[p + 1] = "\n"
    /\ output[p + 2] = "\n"
    /\ output[p + 3] \in BlockHeadings \cup { FooterRule[1] }

\* format_for_claude_code has returned its document
Rendered == pc = "done" /\ format # "mindmap"

\* C11: in the primary format a block heading (critical issues, architecture,
\* current tasks, recent changes) is emitted only if its backing section is
\* present and non-empty, and never with an empty body under it.
C11_NoEmptyBlock ==
    Rendered =>
        \A p \in 1..Len(output) :
            output[p] \in BlockHeadings
                => /\ Backing(output[p]) \in DOMAIN filtered
                   /\ ~IsEmpty(filtered[Backing(output[p])])
                   /\ ~EmptyBodyAt(p)

\* C12: when current_errors is absent from the state handed to the renderer,
\* or is an empty list, the output holds no critical-issues heading and no
\* fenced critical block.
C12_NoIssuesWithoutErrors ==
    (Rendered /\ Len(Get(filtered, "current_errors", << >>)) = 0)
        => \A p \in 1..Len(output) : output[p] \notin { IssuesHeading[1], "critical:" }

\* an empty current_errors list reached the renderer, which printed the tasks
C12_Witness ==
    /\ Rendered
    /\ "current_errors" \in DOMAIN filtered
    /\ filtered.current_errors = << >>
    /\ \E p \in 1..Len(output) : output[p] = TasksHeading[1]

\* analyze_project_state has just returned state to compress_project
Analyzed == pc = "filter" /\ call = "compress_project"

\* the deduplication key of an error entry
ErrorKey(error) == << error.type, Prefix(error.message, 50) >>

\* the positions of current_errors that hold the key
Surfacing(key) ==
    { j \in 1..Len(state.current_errors) : ErrorKey(state.current_errors[j]) = key }

\* C13 as stated: however many collected errors share a (type, first 50
\* characters of message), exactly one entry of current_errors has it.
C13_ExactlyOneSurfaces ==
    Analyzed =>
        \A collected \in { CollectedErrors(env) } :
            \A i \in 1..Len(collected) :
                Cardinality(Surfacing(ErrorKey(collected[i]))) = 1

\* C13 amended: no two entries of current_errors share a (type, first 50
\* characters of message); of the collected errors that share one, at most
\* one surfaces, and exactly one when the collected errors have at most 10
\* distinct keys.
C13_AtMostOneSurfaces ==
    Analyzed =>
        \A collected \in { CollectedErrors(env) } :
            LET keys == { ErrorKey(collected[i]) : i \in 1..Len(collected) }
            IN  /\ \A i, j \in 1..Len(state.current_errors) :
                       i # j => ErrorKey(state.current_errors[i])
                                    # ErrorKey(state.current_errors[j])
                /\ \A key \in keys : Cardinality(Surfacing(key)) <= 1
                /\ Cardinality(keys) <= MaxErrors
                       => \A key \in keys : Cardinality(Surfacing(key)) = 1

\* two collected log lines share a key and one entry surfaces for it
C13_Witness ==
    /\ Analyzed
    /\ \E collected \in { CollectedErrors(env) } :
           \E i, j \in 1..Len(collected) :
               /\ i # j
               /\ ErrorKey(collected[i]) = ErrorKey(collected[j])
               /\ "file" \in DOMAIN collected[i]
               /\ Cardinality(Surfacing(ErrorKey(collected[i]))) = 1

\* the position of the line break that ends the group whose heading is at p:
\* the first line break after p that an empty line follows
GroupEnd(p) ==
    CHOOSE q \in p..Len(output) :
        /\ output[q] = "\n"
        /\ q < Len(output) /\ output[q + 1] = "\n"
        /\ \A k \in p..(q - 1) : ~(output[k] = "\n" /\ output[k + 1] = "\n")

\* the number of task lines printed under the group heading at p
GroupCount(p) == Cardinality({ k \in p..GroupEnd(p) : output[k] = "- " })

GroupHeadings == { HighHeading[1], MediumHeading[1] }

\* C14: the collected current_errors has at most 10 entries, the collected
\* recent_changes at most 5 commits and at most 5 files, and every High or
\* Medium priority group of a rendered document lists at most 3 tasks.
C14_TruncationBounds ==
    /\ Analyzed =>
           /\ Len(state.current_errors) <= MaxErrors
           /\ Len(state.recent_changes.commits) <= 5
           /\ Len(state.recent_changes.files) <= 5
    /\ Rendered =>
           \A p \in 1..Len(output) :
               output[p] \in GroupHeadings => GroupCount(p) <= 3

\* a project with more than 10 distinct errors, more than 5 commits, more than
\* 5 recent files and more than 3 tasks of each priority has been rendered, and
\* every list is at its limit
C14_Witness ==
    /\ Rendered
    /\ call = "compress_project"
    /\ env = BusyEnv
    /\ Len(CollectedErrors(env)) > MaxErrors
    /\ Len(state.current_errors) = MaxErrors
    /\ Len(state.recent_changes.commits) = 5
    /\ Len(state.recent_changes.files) = 5
    /\ "tasks" \in DOMAIN filtered
    /\ Len(filtered.tasks) > 6
    /\ \E p, q \in 1..Len(output) :
           /\ output[p] = HighHeading[1] /\ GroupCount(p) = 3
           /\ output[q] = MediumHeading[1] /\ GroupCount(q) = 3

\* the collected errors none of whose key surfaces in current_errors
Dropped(collected) ==
    { i \in 1..Len(collected) : Surfacing(ErrorKey(collected[i])) = {} }

\* C15: current_errors is in descending order of timestamp, and every
\* collected error whose key was dropped is no newer than every kept entry.
C15_NewestFirstNewestKept ==
    Analyzed =>
        /\ \A i, j \in 1..Len(state.current_errors) :
               i < j => ~StrLess(state.current_errors[i].timestamp,
                                 state.current_errors[j].timestamp)
        /\ \A collected \in { CollectedErrors(env) } :
               \A i \in Dropped(collected) :
                   \A j \in 1..Len(state.current_errors) :
                       ~StrLess(state.current_errors[j].timestamp,
                                collected[i].timestamp)

\* more than 10 distinct errors with different timestamps were collected, an
\* older one first; the kept entries span two timestamps and an error older
\* than all of them was dropped
C15_Witness ==
    /\ Analyzed
    /\ Len(state.current_errors) = MaxErrors
    /\ \E i, j \in 1..Len(state.current_errors) :
           /\ i < j
           /\ StrLess(state.current_errors[j].timestamp,
                      state.current_errors[i].timestamp)
    /\ \E collected \in { CollectedErrors(env) } :
           /\ 1 \in Dropped(collected)
           /\ \A j \in 1..Len(state.current_errors) :
                  StrLess(collected[1].timestamp, state.current_errors[j].timestamp)

\* _format_tree has returned its lines for tree
TreePrinted == pc = "returned" /\ call = "_format_tree"

\* what a node is printed as: its name, with a slash for a directory
Label(node) == node.name \o (IF node.type = s_directory THEN << "/" >> ELSE << >>)

\* the connector of a child: one for the last child, one for every other
Connector(is_last) == IF is_last THEN "+-- " ELSE "|-- "

RECURSIVE Size(_)
\* the number of nodes of a tree
Size(node) ==
    IF node.type # s_directory \/ Len(Get(node, "children", << >>)) = 0 THEN 1
    ELSE LET RECURSIVE Sum(_)
             Sum(k) == IF k = 0 THEN 0 ELSE Size(node.children[k]) + Sum(k - 1)
         IN  1 + Sum(Len(node.children))

RECURSIVE Before(_, _)
\* the number of nodes of the first k children of a directory
Before(node, k) == IF k = 0 THEN 0 ELSE Size(node.children[k]) + Before(node, k - 1)

RECURSIVE WellPrinted(_, _)
\* line at is the node's own, ending in its label; the children of a directory
\* follow in their order, each after the whole of the ones before it, and the
\* line of each ends in its connector and its label
WellPrinted(node, at) ==
    /\ EndsWith(ret_lines[at], Label(node))
    /\ node.type = s_directory =>
           LET children == Get(node, "children", << >>)
           IN  \A i \in 1..Len(children) :
                   LET pos == at + 1 + Before(node, i - 1)
                   IN  /\ EndsWith(ret_lines[pos],
                                   << Connector(i = Len(children)) >> \o Label(children[i]))
                       /\ WellPrinted(children[i], pos)

ExampleLines ==
    << <<"r","o","o","t","/">>, <<"|-- ","a","/">>, <<"+-- ","b",".","t","x","t">> >>

\* C16: the printer prints a directory's name and a slash, then its children
\* in their given order, the last child with the last-child connector and every
\* other child with the other connector; root{a/, b.txt} gives exactly the
\* lines root/, |-- a/, +-- b.txt.
C16_TreeLines ==
    TreePrinted =>
        /\ Len(ret_lines) = Size(arg_tree)
        /\ ret_lines[1] = Label(arg_tree)
        /\ WellPrinted(arg_tree, 1)
        /\ arg_tree = ExampleTree => ret_lines = ExampleLines

\* the example tree has been printed
C16_Witness == TreePrinted /\ arg_tree = ExampleTree /\ Len(ret_lines) = 3

\* the segment by which the prefix grows below a child: blank below the last
\* child, continuing below every other
Segment(is_last) == IF is_last THEN "    " ELSE "|   "

RECURSIVE PrefixExtended(_, _, _)
\* the lines of the node's children are prefix, one connector and the label,
\* and those below a child directory have prefix extended by that child's segment
PrefixExtended(node, at, prefix) ==
    node.type = s_directory =>
        LET children == Get(node, "children", << >>)
        IN  \A i \in 1..Len(children) :
                LET pos == at + 1 + Before(node, i - 1)
                    is_last == (i = Len(children))
                IN  /\ ret_lines[pos]
                           = prefix \o << Connector(is_last) >> \o Label(children[i])
                    /\ PrefixExtended(children[i], pos, prefix \o << Segment(is_last) >>)

\* C17: below a child directory the lines carry the parent's prefix extended
\* by the continuing segment when the child is not the last sibling and by the
\* blank segment when it is, then one connector: a node at depth d >= 1 has
\* d-1 segments and exactly one connector.
C17_PrefixExtendedBySegment ==
    (TreePrinted /\ Len(ret_lines) = Size(arg_tree)) => PrefixExtended(arg_tree, 1, << >>)

\* the pipeline has run a second time on the same project, configuration,
\* arguments and clock value, and has returned again
RanTwice == pc = "done" /\ call = "compress_project" /\ Len(previous) = 1

\* C18: the second run of the pipeline on the same project contents, the same
\* configuration and the same clock value returns the text the first run
\* returned, byte for byte.
C18_SameOutputTwice == RanTwice => output = previous[1]

\* the knowledge_compression settings the configuration document supplies
Supplied ==
    IF config_document.exists /\ "knowledge_compression" \in DOMAIN config_document.content
    THEN config_document.content.knowledge_compression
    ELSE [k \in {} |-> << >>]

SuppliesMaxTokens == "max_tokens" \in DOMAIN Supplied

SuppliesPriorityOrder ==
    /\ "claude_code_optimization" \in DOMAIN Supplied
    /\ "priority_order" \in DOMAIN Supplied.claude_code_optimization

\* the settings the engine is to use: the document's where it supplies one,
\* the built-in default where it does not
ExpectedMaxTokens ==
    IF SuppliesMaxTokens THEN Supplied.max_tokens
    ELSE default_config.knowledge_compression.max_tokens

ExpectedPriorityOrder ==
    IF SuppliesPriorityOrder THEN Supplied.claude_code_optimization.priority_order
    ELSE default_config.knowledge_compression.claude_code_optimization.priority_order

\* C19: with no configuration document, and with one that omits max_tokens or
\* priority_order, the loaded configuration has max_tokens = 5000 and the
\* built-in priority order for what is omitted and the document's value for
\* what it supplies, and the allocator walks that priority order.
C19_DefaultsWhereOmitted ==
    /\ "max_tokens" \in DOMAIN config.knowledge_compression
    /\ config.knowledge_compression.max_tokens = ExpectedMaxTokens
    /\ HasPriorityOrder(config)
    /\ config.knowledge_compression.claude_code_optimization.priority_order
           = ExpectedPriorityOrder
    /\ pc = "filter_loop" => priority_config = ExpectedPriorityOrder

\* the entries of the task cache file, when it is there and parses
CacheEntries(e) ==
    LET cache == Child(e.root, <<".","c","l","a","u","d","e","-","t","a","s","k","-","c","a","c","h","e",".","j","s","o","n">>)
    IN  IF Len(cache) = 1 /\ Opens(cache[1]) /\ cache[1].data.valid
           /\ "tasks" \in DOMAIN cache[1].data.value
        THEN cache[1].data.value.tasks
        ELSE << >>

\* the lines of the TODO file that begin with the open-item marker, when the
\* file is there and can be read
OpenTodoLines(e) ==
    LET todo == Child(e.root, <<"T","O","D","O",".","m","d">>)
        text == IF Len(todo) = 1 /\ Opens(todo[1]) THEN Lines(todo[1].text) ELSE << >>
    IN  SelectSeq([j \in 1..Len(text) |-> Strip(text[j])],
                  LAMBDA line : StartsWith(line, <<"-"," ","["," ","]">>))

\* C20: tasks is the entries of the task cache file in file order, followed by
\* one pending task of priority medium for each TODO line that begins with
\* '- [ ]'; nothing is merged or dropped, and a source that is missing or does
\* not parse leaves the tasks of the other source in place.
C20_TasksFromBothSources ==
    Analyzed =>
        \E cached \in { CacheEntries(env) } :
            \E open \in { OpenTodoLines(env) } :
                /\ Len(state.tasks) = Len(cached) + Len(open)
                /\ \A i \in 1..Len(cached) : state.tasks[i] = cached[i]
                /\ \A j \in 1..Len(open) :
                       LET task == state.tasks[Len(cached) + j]
                       IN  /\ task.status = s_pending
                           /\ task.priority = s_medium
                           /\ EndsWith(open[j], task.content)
                           /\ Len(task.content) = Len(open[j]) - 6

\* both sources gave tasks and all of them were returned
C20_Witness ==
    /\ Analyzed
    /\ Len(CacheEntries(env)) >= 2
    /\ Len(OpenTodoLines(env)) >= 2
    /\ Len(state.tasks) = Len(CacheEntries(env)) + Len(OpenTodoLines(env))

\* what a step of the pass has to do with the name at idx: the section it
\* names, when state has it and it fits on top of the running total, is in the
\* result with its cost added; otherwise result and running total stay
EvaluatedAtIdx ==
    LET name == priority_config[idx]
        present == name \in DOMAIN priority_mapping /\ priority_mapping[name] \in DOMAIN state
        key == priority_mapping[name]
    IN  IF present /\ estimated_tokens + SectionTokens(key, state) <= 4 * max_tokens
        THEN /\ key \in DOMAIN filtered'
             /\ filtered'[key] = state[key]
             /\ estimated_tokens' = estimated_tokens + SectionTokens(key, state)
        ELSE /\ filtered' = filtered
             /\ estimated_tokens' = estimated_tokens

\* C21: the pass goes over the priority order once and to its end: each step
\* evaluates the name at its position against the running total as it stands
\* and moves to the next one, whether the name before was skipped or not; the
\* loop is left only behind the last name; and what is in the result stays in it.
C21_SinglePassNoEarlyExit ==
    [][pc = "filter_loop" =>
          /\ \A k \in DOMAIN filtered : k \in DOMAIN filtered' /\ filtered'[k] = filtered[k]
          /\ pc' # "filter_loop" => idx > Len(priority_config)
          /\ pc' = "filter_loop" => (idx' = idx + 1 /\ EvaluatedAtIdx)]_vars

\* a section was skipped for its cost and a later name of the priority order
\* was included, and both are in the returned result's history
C21_Witness ==
    /\ pc = "returned"
    /\ \E i, j \in 1..Len(priority_config) :
           /\ i < j
           /\ priority_config[i] \in DOMAIN priority_mapping
           /\ priority_config[j] \in DOMAIN priority_mapping
           /\ Skipped(priority_mapping[priority_config[i]])
           /\ SectionTokens(priority_mapping[priority_config[i]], state) > 4 * max_tokens
           /\ priority_mapping[priority_config[j]] \in DOMAIN filtered
           /\ Len(filtered[priority_mapping[priority_config[j]]]) > 0

\* the max_tokens of the loaded configuration, when it has one
ConfiguredMaxTokens == config.knowledge_compression.max_tokens

\* C22: in compress_project the estimated cost of the sections of the
\* CompressedState other than project_info never exceeds the max_tokens of the
\* loaded configuration, whatever max_tokens the caller passes.
C22_ConfiguredBudgetEnforced ==
    (call = "compress_project" /\ Returned
        /\ "max_tokens" \in DOMAIN config.knowledge_compression)
    => IncludedCost <= 4 * ConfiguredMaxTokens

\* the priority order without the entries outside the known names
KnownOnly(order) == SelectSeq(order, LAMBDA name : name \in DOMAIN priority_mapping)

RECURSIVE PassFrom(_, _, _, _)
\* the result of the loop of filter_by_importance over order from position i
\* on, begun with result f and running total estimated, and of the lines after it
PassFrom(order, i, f, estimated) ==
    IF i > Len(order) THEN AddProjectInfo(f, state)
    ELSE LET key == ResolvedKey(order[i], state)
         IN  IF Len(key) = 1 /\ Fits(estimated, SectionTokens(key[1], state), max_tokens)
             THEN PassFrom(order, i + 1, IncludeSection(f, key[1], state),
                           estimated + SectionTokens(key[1], state))
             ELSE PassFrom(order, i + 1, f, estimated)

\* C23: a step of the pass on an entry outside the four known names raises
\* nothing and leaves the result and the running total as they are, and the
\* CompressedState returned is the one the pass gives for the priority order
\* with those entries removed.
C23_UnknownEntryIgnored ==
    [][/\ (pc = "filter_loop" /\ idx <= Len(priority_config)
              /\ priority_config[idx] \notin DOMAIN priority_mapping)
          => (pc' = "filter_loop" /\ idx' = idx + 1
                 /\ filtered' = filtered /\ estimated_tokens' = estimated_tokens)
       /\ (pc = "filter_loop" /\ pc' # "filter_loop")
          => filtered' = PassFrom(KnownOnly(priority_config), 1, << >>, 0)]_vars

\* a pass over a priority order with an entry outside the known names, with
\* known names before and after it, has returned a result with sections
C23_Witness ==
    /\ pc = "returned"
    /\ \E i \in 2..(Len(priority_config) - 1) :
           priority_config[i] \notin DOMAIN priority_mapping
    /\ DOMAIN filtered = { "tasks", "recent_changes", "project_info" }
    /\ Len(filtered.tasks) > 0

\* filter_by_importance or the render step is running
AllocatingOrRendering == pc \in { "filter", "filter_loop", "format" }

\* C24: no step of filter_by_importance and no render step changes the
\* ProjectState (its keys and every payload) or the configuration, and the
\* render step leaves the CompressedState it was given as it is.
C24_InputsUnchanged ==
    [][AllocatingOrRendering =>
          /\ state' = state
          /\ config' = config
          /\ pc = "format" => filtered' = filtered]_vars

\* a document was rendered from a result that holds more errors than the
\* renderer lists, and the state the result was taken from is whole
C24_Witness ==
    /\ pc = "done"
    /\ format = "claude-code"
    /\ "current_errors" \in DOMAIN filtered
    /\ Len(filtered.current_errors) > 5
    /\ DOMAIN filtered \subseteq DOMAIN state
    /\ \A k \in DOMAIN filtered : filtered[k] = state[k]
    /\ Cardinality(DOMAIN state) > Cardinality(DOMAIN filtered)
    /\ config = default_config

\* the first line of each block of the skeleton, in the skeleton's order
Skeleton ==
    << TitleLine[1], LocationHeading[1], IssuesHeading[1], ArchitectureHeading[1],
       TasksHeading[1], ChangesHeading[1], FooterRule[1] >>

\* for each block of the skeleton, the positions of output that hold its first line
SkeletonPositions ==
    [i \in 1..Len(Skeleton) |-> { p \in 1..Len(output) : output[p] = Skeleton[i] }]

\* a document in the primary format has been returned
RenderedPrimary == pc = "done" /\ format = "claude-code"

\* C25: in the primary format the blocks that appear stand in the order
\* banner, current location, critical issues, architecture, current tasks,
\* recent changes, footer, each at most once, the banner first and the footer
\* always there, whatever the priority order and whichever sections are in.
C25_FixedSkeletonOrder ==
    RenderedPrimary =>
        \A at \in { SkeletonPositions } :
            /\ at[1] = { 1 }
            /\ Cardinality(at[Len(Skeleton)]) = 1
            /\ \A i \in 1..Len(Skeleton) : Cardinality(at[i]) <= 1
            /\ \A i, j \in 1..Len(Skeleton) :
                   i < j => \A p \in at[i] : \A q \in at[j] : p < q

\* the priority order puts the tasks ahead of the issues, both are in the
\* document, and the issues stand ahead of the tasks
C25_Witness ==
    /\ RenderedPrimary
    /\ priority_config = << "current_tasks", "errors_and_issues" >>
    /\ \E p, q \in 1..Len(output) :
           /\ output[p] = IssuesHeading[1]
           /\ output[q] = TasksHeading[1]
           /\ p < q

\* the number of entries listed under the group heading, 0 without the heading
Shown(heading) ==
    LET at == { p \in 1..Len(output) : output[p] = heading }
    IN  IF at = {} THEN 0 ELSE GroupCount(CHOOSE p \in at : TRUE)

\* the commits group stands ahead of the files group
CommitsBeforeFiles ==
    \A p, q \in { k \in 1..Len(output) : output[k] \in { CommitsHeading[1], FilesHeading[1] } } :
        (output[p] = CommitsHeading[1] /\ output[q] = FilesHeading[1]) => p < q

\* a document of compress_project in the primary format, with recent changes
RenderedChanges ==
    RenderedPrimary /\ call = "compress_project" /\ "recent_changes" \in DOMAIN filtered

\* C26: the recent-changes block lists the commits before the files and shows
\* every commit and every file of the CompressedState's recent_changes, which
\* the collector has capped at 5 each.
C26_AllChangesShown ==
    RenderedChanges =>
        /\ CommitsBeforeFiles
        /\ Shown(CommitsHeading[1]) = Len(filtered.recent_changes.commits)
        /\ Shown(FilesHeading[1]) = Len(filtered.recent_changes.files)

RECURSIVE TreeBounded(_, _)
\* node, at depth levels under the root, and all below it: nothing lies deeper
\* than the third level, a file is listed only in a directory less than two
\* levels down, and a directory two or more levels down has children only if
\* its name is in the allow-list
TreeBounded(node, depth) ==
    /\ depth + 1 <= max_depth
    /\ node.type = s_directory =>
           LET children == Get(node, "children", << >>)
           IN  /\ (depth >= 2 /\ Len(children) > 0) => node.name \in important_dirs
               /\ \A i \in 1..Len(children) :
                      /\ children[i].type = s_file => depth < 2
                      /\ TreeBounded(children[i], depth + 1)

RECURSIVE RealDepth(_)
\* the number of levels of the project directory itself
RealDepth(node) ==
    IF ~node.is_dir \/ Len(node.children) = 0 THEN 1
    ELSE LET RECURSIVE Deepest(_)
             Deepest(k) ==
                 IF k = 0 THEN 0
                 ELSE LET below == Deepest(k - 1)
                          here == RealDepth(node.children[k])
                      IN  IF here > below THEN here ELSE below
         IN  1 + Deepest(Len(node.children))

\* C27: whatever the depth of the project, the collected directory tree has no
\* node more than 3 levels deep (the root being the first), lists files only
\* in directories at depth < 2, and expands a directory at depth >= 2 only if
\* its name is in the allow-list.
C27_TreeBounded ==
    Analyzed => TreeBounded(state.architecture.structure, 0)

\* a project five levels deep was collected; its tree has three levels, with
\* directories at the third
C27_Witness ==
    /\ Analyzed
    /\ RealDepth(env.root) > max_depth + 1
    /\ \E i \in 1..Len(state.architecture.structure.children) :
           LET child == state.architecture.structure.children[i]
           IN  /\ child.type = s_directory
               /\ \E j, k \in 1..Len(child.children) :
                      /\ child.children[j].type = s_directory
                      /\ child.children[j].name \in important_dirs
                      /\ child.children[k].type = s_directory
                      /\ child.children[k].name \notin important_dirs

RECURSIVE FirstOccurrences(_)
\* order with every name kept at its first position only
FirstOccurrences(order) ==
    IF Len(order) = 0 THEN << >>
    ELSE LET front == FirstOccurrences(SubSeq(order, 1, Len(order) - 1))
             last == order[Len(order)]
         IN  IF \E i \in 1..Len(front) : front[i] = last THEN front
             ELSE Append(front, last)

\* the loop over priority_config has run to its end
PassEnded == pc = "filter_loop" /\ idx > Len(priority_config)

\* the result is the one of the priority order with repeats removed
SameAsListedOnce ==
    AddProjectInfo(filtered, state) = PassFrom(FirstOccurrences(priority_config), 1, << >>, 0)

\* C28: at the end of the pass the result is the one the pass gives for the
\* priority order with every name listed once at its first position, and the
\* running total equals the sum of the costs of the distinct sections of the
\* result: no section is charged twice.
C28_RepeatChargedOnce ==
    PassEnded => (SameAsListedOnce /\ estimated_tokens = IncludedCost)

\* the first position of name in order
FirstIndex(order, name) ==
    CHOOSE i \in 1..Len(order) : order[i] = name /\ \A k \in 1..(i - 1) : order[k] # name

\* a and b are names of present sections, a is listed ahead of b, and the
\* result holds the section of b and not the one of a
Displaced(a, b) ==
    /\ \E i \in 1..Len(priority_config) : priority_config[i] = a
    /\ \E j \in 1..Len(priority_config) : priority_config[j] = b
    /\ FirstIndex(priority_config, a) < FirstIndex(priority_config, b)
    /\ priority_mapping[a] \in DOMAIN state
    /\ priority_mapping[b] \in DOMAIN state
    /\ priority_mapping[b] \in DOMAIN filtered
    /\ priority_mapping[a] \notin DOMAIN filtered

\* C29: when the returned result holds the section of a name b and not the
\* present section of a name a listed ahead of b, the estimated cost of a's
\* section is strictly greater than the estimated cost of b's section.
C29_PriorityDominance ==
    Returned =>
        \A a, b \in DOMAIN priority_mapping :
            Displaced(a, b) =>
                SectionTokens(priority_mapping[a], state)
                    > SectionTokens(priority_mapping[b], state)

\* a result that holds a section listed after one it does not hold, the held
\* one not empty
C29_Witness ==
    /\ Returned
    /\ \E a, b \in DOMAIN priority_mapping :
           /\ Displaced(a, b)
           /\ SectionTokens(priority_mapping[b], state) > 8

\* the keys a result of filter_by_importance may hold
CompressedKeys == {"project_info"} \cup MappedKeys

\* the collected sections no logical name stands for
Unmapped == {"dependencies", "test_status", "docker_status"}

\* the logical name n is in the priority order
Listed(n) == \E i \in 1..Len(priority_config) : priority_config[i] = n

\* C30: the keys of the result are among project_info, current_errors, tasks,
\* recent_changes and architecture at every step of the pass and after it; the
\* section of a known name that the priority order does not list is never in
\* the result; and the rendered output is the rendering of the result without
\* dependencies, test_status and docker_status.
C30_OnlyListedMappedSections ==
    /\ Allocating =>
           /\ DOMAIN filtered \subseteq CompressedKeys
           /\ DOMAIN filtered \cap Unmapped = {}
           /\ \A n \in DOMAIN priority_mapping :
                  ~Listed(n) => priority_mapping[n] \notin DOMAIN filtered
    /\ pc = "done" =>
           output = Render(format, [k \in DOMAIN filtered \ Unmapped |-> filtered[k]],
                           clock).lines

\* a rendered run on a state with the three status sections, under a budget
\* that had room for a present section whose name the priority order leaves out
C30_Witness ==
    /\ pc = "done"
    /\ call = "compress_project"
    /\ Unmapped \subseteq DOMAIN state
    /\ \E n \in DOMAIN priority_mapping :
           /\ ~Listed(n)
           /\ priority_mapping[n] \in DOMAIN state
           /\ SectionTokens(priority_mapping[n], state) > 8
           /\ Fits(estimated_tokens, SectionTokens(priority_mapping[n], state), max_tokens)
    /\ max_tokens = 5000

====
